---- MODULE Spec2Model ----
(***************************************************************************)
(* Model of the log-analyzer dashboard (static/js/main.js) together with   *)
(* the server-side contracts it drives: the incident workflow, the         *)
(* collection scheduler, the severity classifier and the explanation and   *)
(* mitigation engines.                                                     *)
(*                                                                         *)
(* The server (app.py, ir_workflow.py) is not part of the sources at hand; *)
(* the definitions whose names start with "Server" follow the design       *)
(* document instead.                                                       *)
(***************************************************************************)
EXTENDS Integers, Sequences, FiniteSets, TLC

VARIABLES
    \* ---- incident workflow ----
    stage,          \* server: currentStage of every incident
    calls,          \* bag of the calls of window.advanceIncident made so far
    tableStage,     \* client: current_stage shown by the incidents table
    incidentLoads,  \* responses of GET /api/incidents still in flight
    \* ---- scheduler: the page ----
    schedInterval,  \* value of the #schedInterval input
    schedMaxItems,  \* value of the #schedMaxItems input
    schedStatus,    \* text of #schedStatus
    schedulePoller, \* TRUE when schedulePoller holds a timer handle
    timers,         \* number of live setInterval(getScheduleStatus) timers
    startCalls,     \* bag of startSchedule calls awaiting their response
    stopCalls,      \* bag of stopSchedule calls awaiting their response
    statusCalls,    \* bag of getScheduleStatus calls awaiting their response
    schedClicks,    \* number of start and stop clicks so far
    stopProcessed,  \* TRUE when the last start or stop response the page
                    \* handled was a stop response with stopped = true
    \* ---- scheduler: the server ----
    srvRunning,     \* ScheduleState.running
    srvInterval,    \* ScheduleState.intervalSec
    srvMaxItems,    \* ScheduleState.maxItems
    srvLastResult,  \* ScheduleState.lastResult
    srvTriggers,    \* number of repeating triggers registered
    srvCycles,      \* number of cycles in flight
    srvLastCall,    \* the last of start and stop that the server served
    srvSkipped,     \* TRUE once a tick has been skipped
    \* ---- alerts ----
    alertsEnabled,  \* the alertsEnabled flag
    permissionAsks, \* Notification.requestPermission() promises not yet settled
    notified,       \* titles of the Notifications created so far
    grantedSinceOff, \* TRUE when a permission request answered "granted"
                    \* has completed since the last click that turned
                    \* alerts off
    lastRun,        \* the handler that ran last and its sendAlert calls
    \* ---- anomaly list and severity chart ----
    analyzeReply,   \* the anomalies /api/analyze answers with
    logsReply,      \* the records /api/logs answers with
    statsReply,     \* the counts /api/stats/severity answers with
    listCalled,     \* TRUE once updateAnomalyList has run
    anomalyLabels,  \* sevLabel chosen for each anomaly its last run reached
    anomalyList,    \* the items of #anomalyList
    listThrew,      \* TRUE when its last run ended in a TypeError
    chartInput,     \* the argument of the last updateLevelChart call
    levelCounts,    \* the counts that call worked out
    levelChart,     \* labels and data of window.levelChartInstance
    \* ---- containment ----
    buttons,        \* the Execute buttons of #anomalyList, by item
    simulations     \* bag of simulateContainment calls not yet finished

wfVars == <<stage, calls, tableStage, incidentLoads>>

pageSchedVars == <<schedInterval, schedMaxItems, schedStatus, schedulePoller,
                   timers, startCalls, stopCalls, statusCalls, schedClicks,
                   stopProcessed>>

srvSchedVars == <<srvRunning, srvInterval, srvMaxItems, srvLastResult,
                  srvTriggers, srvCycles, srvLastCall, srvSkipped>>

schedVars == <<pageSchedVars, srvSchedVars>>

alertVars == <<alertsEnabled, permissionAsks, notified, grantedSinceOff,
               lastRun>>

replyVars == <<analyzeReply, logsReply, statsReply>>

listVars == <<listCalled, anomalyLabels, anomalyList, listThrew>>

chartVars == <<chartInput, levelCounts, levelChart>>

simVars == <<buttons, simulations>>

anaVars == <<replyVars, alertVars, listVars, simVars, chartVars>>

vars == <<wfVars, schedVars, anaVars>>

----------------------------------------------------------------------------
(* Bounds *)

MaxCalls == 2
MaxLoads == 1
MaxSchedClicks == 3
MaxPolls == 1
MaxAnoms == 1
MaxLogs == 1
MaxAsks == 2
MaxListed == 2
MaxSims == 2

----------------------------------------------------------------------------
(* Requests in flight are kept in bags: functions from a record to the     *)
(* number of its copies.                                                   *)

BagAdd(bag, x) ==
    IF x \in DOMAIN bag THEN [bag EXCEPT ![x] = @ + 1]
    ELSE [y \in DOMAIN bag \cup {x} |-> IF y = x THEN 1 ELSE bag[y]]

BagRemove(bag, x) ==
    IF bag[x] > 1 THEN [bag EXCEPT ![x] = @ - 1]
    ELSE [y \in DOMAIN bag \ {x} |-> bag[y]]

BagSize(bag) ==
    LET RECURSIVE Sum(_)
        Sum(S) == IF S = {} THEN 0
                  ELSE LET x == CHOOSE y \in S : TRUE
                       IN bag[x] + Sum(S \ {x})
    IN Sum(DOMAIN bag)

EmptyBag == <<>>

----------------------------------------------------------------------------
(* Incident workflow *)

IncidentIds == {1, 2}

Stages == <<"Detection", "Analysis", "Containment", "Recovery">>

StageSet == {Stages[i] : i \in 1..Len(Stages)}

\* Targets a caller may pass to window.advanceIncident.
Targets == StageSet

StageIdx(s) == CHOOSE i \in 1..Len(Stages) : Stages[i] = s

IsSuccessor(from, to) ==
    /\ to \in StageSet
    /\ StageIdx(to) = StageIdx(from) + 1

\* advance(incident, targetStage) that only refuses to move backward: a
\* later stage is accepted whether or not it is the next one.
ServerAdvanceForward(st, id, target) ==
    IF target \in StageSet /\ StageIdx(target) > StageIdx(st[id])
    THEN [stage |-> [st EXCEPT ![id] = target], status |-> "advanced"]
    ELSE [stage |-> st, status |-> "error"]

\* advance(incident, targetStage) that reports success when the incident is
\* already at the target.
ServerAdvanceIdempotent(st, id, target) ==
    IF IsSuccessor(st[id], target) \/ st[id] = target
    THEN [stage |-> [st EXCEPT ![id] = target], status |-> "advanced"]
    ELSE [stage |-> st, status |-> "error"]

\* advance(incident, targetStage): compare-and-set on currentStage.
ServerAdvance(st, id, target) ==
    IF IsSuccessor(st[id], target)
    THEN [stage |-> [st EXCEPT ![id] = target], status |-> "advanced"]
    ELSE [stage |-> st, status |-> "error"]

\* The ways the server can carry a verdict back to fetch().
ServerResponses(status) ==
    IF status = "advanced" THEN {"json_advanced"}
    ELSE {"json_error", "http_error"}

\* loadIncidents: the target of the action button of a row.
ActionTarget(current) ==
    CASE current = "Detection"   -> "Analysis"
      [] current = "Analysis"    -> "Containment"
      [] current = "Containment" -> "Recovery"
      [] OTHER                   -> "none"

\* window.advanceIncident without its try/catch: a thrown error leaves the
\* function.
AdvanceOutcomeNoCatch(resp) ==
    CASE resp = "http_error"    -> "escaped"
      [] resp = "json_advanced" -> "reloaded"
      [] OTHER                  -> "alert_wait"

\* window.advanceIncident after the fetch settles: what the caller sees.
\*   reloaded     r.status === 'advanced': table and counters are reloaded
\*   alert_wait   alert('Wait, failed to advance: ...')
\*   alert_failed !resp.ok throws inside the try; the catch block shows
\*                alert('Action Failed: ...')
AdvanceOutcome(resp) ==
    CASE resp = "http_error"    -> "alert_failed"
      [] resp = "json_advanced" -> "reloaded"
      [] OTHER                  -> "alert_wait"

NewCall(id, target) ==
    [id |-> id, target |-> target, issuedAt |-> stage[id], phase |-> "sent",
     resp |-> "none", outcome |-> "pending"]

\* window.advanceIncident(id, stage) up to its await fetch(...).
AdvanceIncidentCall(id, target) ==
    /\ BagSize(calls) < MaxCalls
    /\ calls' = BagAdd(calls, NewCall(id, target))
    /\ UNCHANGED <<stage, tableStage, incidentLoads>>

\* A click on the action button the table shows for incident id.
ClickAction(id) ==
    /\ ActionTarget(tableStage[id]) # "none"
    /\ AdvanceIncidentCall(id, ActionTarget(tableStage[id]))

\* window.advanceIncident is a property of window: any caller, any target.
DirectAdvance(id, target) ==
    AdvanceIncidentCall(id, target)

\* POST /api/incidents/<id>/advance reaches the server.
ServerHandleAdvance(c) ==
    /\ c.phase = "sent"
    /\ LET r == ServerAdvance(stage, c.id, c.target)
       IN /\ stage' = r.stage
          /\ \E resp \in ServerResponses(r.status) :
                calls' = BagAdd(BagRemove(calls, c),
                                 [c EXCEPT !.phase = "answered", !.resp = resp])
    /\ UNCHANGED <<tableStage, incidentLoads>>

\* window.advanceIncident from the settled fetch to its end; on success it
\* calls loadIncidents(), which sends its fetch. (It also calls
\* updateWorkflowStatus(), which rewrites the four counter elements of the
\* page and nothing else; the counters are not part of this model.)
AdvanceIncidentResume(c) ==
    /\ c.phase = "answered"
    /\ LET out == AdvanceOutcome(c.resp)
       IN /\ calls' = BagAdd(BagRemove(calls, c),
                              [c EXCEPT !.phase = "done", !.outcome = out])
          /\ IF out = "reloaded"
             THEN incidentLoads' = incidentLoads \cup {stage}
             ELSE UNCHANGED incidentLoads
    /\ UNCHANGED <<stage, tableStage>>

\* loadIncidents() up to its await: page load and the refresh button.
LoadIncidentsFetch ==
    /\ Cardinality(incidentLoads) < MaxLoads
    /\ incidentLoads' = incidentLoads \cup {stage}
    /\ UNCHANGED <<stage, calls, tableStage>>

\* loadIncidents() after its await: the table is rebuilt from the response.
LoadIncidentsRender(snap) ==
    /\ snap \in incidentLoads
    /\ incidentLoads' = incidentLoads \ {snap}
    /\ tableStage' = snap
    /\ UNCHANGED <<stage, calls>>

InitWorkflow ==
    /\ stage \in [IncidentIds -> StageSet]  \* incidents outlive a page load
    /\ calls = EmptyBag
    /\ tableStage = [i \in IncidentIds |-> "none"]
    /\ incidentLoads = {}

NextWorkflow ==
    \/ \E id \in IncidentIds : ClickAction(id) /\ UNCHANGED <<schedVars, anaVars>>
    \/ \E id \in IncidentIds, t \in Targets :
          DirectAdvance(id, t) /\ UNCHANGED <<schedVars, anaVars>>
    \/ \E c \in DOMAIN calls : ServerHandleAdvance(c) /\ UNCHANGED <<schedVars, anaVars>>
    \/ \E c \in DOMAIN calls : AdvanceIncidentResume(c) /\ UNCHANGED <<schedVars, anaVars>>
    \/ LoadIncidentsFetch /\ UNCHANGED <<schedVars, anaVars>>
    \/ \E snap \in incidentLoads :
          LoadIncidentsRender(snap) /\ UNCHANGED <<schedVars, anaVars>>

\* No incident exists.
InitWorkflowIdle ==
    /\ stage = [i \in {} |-> "Detection"]
    /\ calls = EmptyBag
    /\ tableStage = stage
    /\ incidentLoads = {}


----------------------------------------------------------------------------
(* Scheduler: numbers and input values *)

\* A finite number i + f/10 with 0 <= f <= 9, as Number() yields it from the
\* text of an input.
Num(i, f) == [kind |-> "num", i |-> i, f |-> f]

NaN == [kind |-> "nan"]

NumLess(a, b) == a.i < b.i \/ (a.i = b.i /\ a.f < b.f)

MinInterval == 30
DefaultInterval == 300
DefaultMaxItems == 1000

\* Texts the #schedInterval input may hold.
IntervalInputs ==
    {[kind |-> "text", text |-> ""], [kind |-> "text", text |-> "abc"],
     Num(0, 0), Num(0 - 5, 0), Num(10, 0), Num(29, 5), Num(30, 0),
     Num(45, 5), Num(100000, 0)}

\* Number(value): the empty text is 0, other non-numeric text is NaN.
ToNumber(v) ==
    IF v.kind = "num" THEN v
    ELSE IF v.text = "" THEN Num(0, 0) ELSE NaN

\* x || d: NaN and 0 are falsy.
OrDefault(x, d) ==
    IF x.kind = "nan" \/ (x.i = 0 /\ x.f = 0) THEN Num(d, 0) ELSE x

\* startSchedule with the minimum left out.
NoClamp(interval) == interval

\* if (interval < 30) interval = 30
Clamp(interval) ==
    IF NumLess(interval, Num(MinInterval, 0)) THEN Num(MinInterval, 0)
    ELSE interval

----------------------------------------------------------------------------
(* Scheduler: the server *)

\* start: if intervalSec < 30, clamp to 30.
ServerClamp(interval) ==
    IF NumLess(interval, Num(MinInterval, 0)) THEN Num(MinInterval, 0)
    ELSE interval

\* start(intervalSec, maxItems) with a second trigger registered when the
\* schedule is already running.
ServerStartStacking(interval, maxItems, keep) ==
    /\ srvRunning' = TRUE
    /\ srvTriggers' = srvTriggers + 1
    /\ srvInterval' = ServerClamp(interval)
    /\ srvMaxItems' = maxItems
    /\ srvLastCall' = "start"
    /\ UNCHANGED <<srvLastResult, srvCycles, srvSkipped>>

\* start(intervalSec, maxItems): clamps the interval; when already running it
\* keeps the configuration (keep) or replaces it; one trigger either way.
ServerStart(interval, maxItems, keep) ==
    /\ srvRunning' = TRUE
    /\ srvTriggers' = 1
    /\ IF srvRunning /\ keep
       THEN UNCHANGED <<srvInterval, srvMaxItems>>
       ELSE /\ srvInterval' = ServerClamp(interval)
            /\ srvMaxItems' = maxItems
    /\ srvLastCall' = "start"
    /\ UNCHANGED <<srvLastResult, srvCycles, srvSkipped>>

\* stop(): cancels the trigger; a cycle in flight runs on.
ServerStop ==
    /\ srvRunning' = FALSE
    /\ srvTriggers' = 0
    /\ srvLastCall' = "stop"
    /\ UNCHANGED <<srvInterval, srvMaxItems, srvLastResult, srvCycles, srvSkipped>>

\* A tick that starts a cycle whether or not one is in flight.
ServerTickAlways ==
    /\ srvTriggers > 0
    /\ srvCycles' = srvCycles + 1
    /\ UNCHANGED <<srvRunning, srvInterval, srvMaxItems, srvLastResult,
                   srvTriggers, srvLastCall, srvSkipped>>

\* The repeating trigger fires: the tick is skipped while a cycle is in
\* flight.
ServerTick ==
    /\ srvTriggers > 0
    /\ IF srvCycles > 0
       THEN srvSkipped' = TRUE /\ UNCHANGED srvCycles
       ELSE srvCycles' = 1 /\ UNCHANGED srvSkipped
    /\ UNCHANGED <<srvRunning, srvInterval, srvMaxItems, srvLastResult,
                   srvTriggers, srvLastCall>>

\* What a cycle may record as lastResult: its counts, or a failure marker.
CycleResults == {"ok", "failed"}

\* A cycle ends: collect -> train -> classify done, lastResult recorded.
ServerCycleEnd(res) ==
    /\ srvCycles > 0
    /\ srvCycles' = srvCycles - 1
    /\ srvLastResult' = res
    /\ UNCHANGED <<srvRunning, srvInterval, srvMaxItems, srvTriggers,
                   srvLastCall, srvSkipped>>

----------------------------------------------------------------------------
(* Scheduler: the page *)

\* getScheduleStatus() up to its await.
StatusFetch == BagAdd(statusCalls, [phase |-> "sent"])

\* startSchedule() up to its await fetch(...).
StartScheduleCall ==
    /\ schedClicks < MaxSchedClicks
    /\ schedClicks' = schedClicks + 1
    /\ LET asked == OrDefault(ToNumber(schedInterval), DefaultInterval)
           interval == Clamp(asked)
           max_items == OrDefault(ToNumber(schedMaxItems), DefaultMaxItems)
       IN /\ schedInterval' = IF interval # asked THEN Num(MinInterval, 0)
                              ELSE schedInterval
          /\ startCalls' = BagAdd(startCalls,
                [phase |-> "sent", typed |-> schedInterval,
                 interval_sec |-> interval, max_items |-> max_items])
    /\ UNCHANGED <<schedMaxItems, schedStatus, schedulePoller, timers,
                   stopCalls, statusCalls, srvSchedVars,
                   stopProcessed>>

\* POST /api/schedule/start reaches the server.
ServerHandleStart(c) ==
    /\ c.phase = "sent"
    /\ \E keep \in BOOLEAN : ServerStart(c.interval_sec, c.max_items, keep)
    /\ startCalls' = BagAdd(BagRemove(startCalls, c),
                            [c EXCEPT !.phase = "answered"] @@
                            [running |-> srvRunning', wasRunning |-> srvRunning])
    /\ UNCHANGED <<schedInterval, schedMaxItems, schedStatus, schedulePoller,
                   timers, stopCalls, statusCalls, schedClicks,
                   stopProcessed>>

\* startSchedule() after its await: on r.started || r.running the status
\* text is set and pollScheduleStatus() runs, which calls getScheduleStatus()
\* and creates the polling timer if there is none.
StartScheduleResume(c) ==
    /\ c.phase = "answered"
    /\ startCalls' = BagRemove(startCalls, c)
    /\ IF c.running
       THEN /\ schedStatus' = "Running"
            /\ statusCalls' = StatusFetch
            /\ schedulePoller' = TRUE
            /\ timers' = IF schedulePoller THEN timers ELSE timers + 1
            /\ stopProcessed' = FALSE
       ELSE UNCHANGED <<schedStatus, statusCalls, schedulePoller, timers,
                        stopProcessed>>
    /\ UNCHANGED <<schedInterval, schedMaxItems, stopCalls, schedClicks,
                   srvSchedVars>>

\* stopSchedule() up to its await fetch(...).
StopScheduleCall ==
    /\ schedClicks < MaxSchedClicks
    /\ schedClicks' = schedClicks + 1
    /\ stopCalls' = BagAdd(stopCalls, [phase |-> "sent"])
    /\ UNCHANGED <<schedInterval, schedMaxItems, schedStatus, schedulePoller,
                   timers, startCalls, statusCalls, srvSchedVars,
                   stopProcessed>>

\* POST /api/schedule/stop reaches the server.
ServerHandleStop(c) ==
    /\ c.phase = "sent"
    /\ ServerStop
    /\ stopCalls' = BagAdd(BagRemove(stopCalls, c),
                           [phase |-> "answered", stopped |-> ~srvRunning',
                            wasRunning |-> srvRunning])
    /\ UNCHANGED <<schedInterval, schedMaxItems, schedStatus, schedulePoller,
                   timers, startCalls, statusCalls, schedClicks,
                   stopProcessed>>

\* stopSchedule() after its await: on r.stopped the status text is set and
\* the polling timer, if any, is cleared.
StopScheduleResume(c) ==
    /\ c.phase = "answered"
    /\ stopCalls' = BagRemove(stopCalls, c)
    /\ IF c.stopped
       THEN /\ schedStatus' = "Stopped"
            /\ schedulePoller' = FALSE
            /\ timers' = IF schedulePoller THEN timers - 1 ELSE timers
            /\ stopProcessed' = TRUE
       ELSE UNCHANGED <<schedStatus, schedulePoller, timers, stopProcessed>>
    /\ UNCHANGED <<schedInterval, schedMaxItems, startCalls, statusCalls,
                   schedClicks, srvSchedVars>>

\* A polling timer fires and calls getScheduleStatus().
PollTimerFires ==
    /\ timers > 0
    /\ BagSize(statusCalls) < MaxPolls
    /\ statusCalls' = StatusFetch
    /\ UNCHANGED <<schedInterval, schedMaxItems, schedStatus, schedulePoller,
                   timers, startCalls, stopCalls, schedClicks, srvSchedVars,
                   stopProcessed>>

\* GET /api/schedule/status reaches the server: a read of the committed
\* snapshot.
ServerHandleStatus(c) ==
    /\ c.phase = "sent"
    /\ statusCalls' = BagAdd(BagRemove(statusCalls, c),
                             [phase |-> "answered", running |-> srvRunning,
                              last_result |-> srvLastResult])
    /\ UNCHANGED <<schedInterval, schedMaxItems, schedStatus, schedulePoller,
                   timers, startCalls, stopCalls, schedClicks, srvSchedVars,
                   stopProcessed>>

\* getScheduleStatus() after its await: the status text follows r.running,
\* and a polling timer is created when r.running and there is none.
GetScheduleStatusResume(c) ==
    /\ c.phase = "answered"
    /\ statusCalls' = BagRemove(statusCalls, c)
    /\ schedStatus' = IF c.running THEN "Running" ELSE "Stopped"
    /\ IF c.running /\ ~schedulePoller
       THEN schedulePoller' = TRUE /\ timers' = timers + 1
       ELSE UNCHANGED <<schedulePoller, timers>>
    /\ UNCHANGED <<schedInterval, schedMaxItems, startCalls, stopCalls,
                   schedClicks, srvSchedVars,
                   stopProcessed>>

\* The state at the end of the DOMContentLoaded handler: the inputs hold
\* whatever text the user has put there, no timer exists, and the page-load getScheduleStatus() is
\* awaiting its response. The server's schedule is stopped.
InitSchedule ==
    /\ schedInterval \in IntervalInputs
    /\ schedMaxItems = [kind |-> "text", text |-> ""]
    /\ schedStatus = ""
    /\ schedulePoller = FALSE
    /\ timers = 0
    /\ startCalls = EmptyBag
    /\ stopCalls = EmptyBag
    /\ statusCalls = BagAdd(EmptyBag, [phase |-> "sent"])
    /\ schedClicks = 0
    /\ stopProcessed = FALSE
    /\ srvRunning = FALSE
    /\ srvInterval = Num(DefaultInterval, 0)
    /\ srvMaxItems = Num(DefaultMaxItems, 0)
    /\ srvLastResult = "null"
    /\ srvTriggers = 0
    /\ srvCycles = 0
    /\ srvLastCall = "none"
    /\ srvSkipped = FALSE

\* Start, stop, polling and the server's cycles; the inputs keep the text
\* they had when the page was loaded, but for the clamp's rewrite.
NextSchedule ==
    \/ StartScheduleCall /\ UNCHANGED <<wfVars, anaVars>>
    \/ \E c \in DOMAIN startCalls : ServerHandleStart(c) /\ UNCHANGED <<wfVars, anaVars>>
    \/ \E c \in DOMAIN startCalls : StartScheduleResume(c) /\ UNCHANGED <<wfVars, anaVars>>
    \/ StopScheduleCall /\ UNCHANGED <<wfVars, anaVars>>
    \/ \E c \in DOMAIN stopCalls : ServerHandleStop(c) /\ UNCHANGED <<wfVars, anaVars>>
    \/ \E c \in DOMAIN stopCalls : StopScheduleResume(c) /\ UNCHANGED <<wfVars, anaVars>>
    \/ PollTimerFires /\ UNCHANGED <<wfVars, anaVars>>
    \/ \E c \in DOMAIN statusCalls : ServerHandleStatus(c) /\ UNCHANGED <<wfVars, anaVars>>
    \/ \E c \in DOMAIN statusCalls :
          GetScheduleStatusResume(c) /\ UNCHANGED <<wfVars, anaVars>>
    \/ ServerTick /\ UNCHANGED <<pageSchedVars, wfVars, anaVars>>
    \/ \E res \in CycleResults :
          ServerCycleEnd(res) /\ UNCHANGED <<pageSchedVars, wfVars, anaVars>>

\* The scheduler untouched: the state InitSchedule describes, with the
\* interval input empty.
InitScheduleIdle ==
    /\ InitSchedule
    /\ schedInterval = [kind |-> "text", text |-> ""]

----------------------------------------------------------------------------
(* Text and regular expressions *)

\* A message is a sequence of one-character strings.

UpperCase ==
    <<"A", "B", "C", "D", "E", "F", "G", "H", "I", "J", "K", "L", "M",
      "N", "O", "P", "Q", "R", "S", "T", "U", "V", "W", "X", "Y", "Z">>

LowerCase ==
    <<"a", "b", "c", "d", "e", "f", "g", "h", "i", "j", "k", "l", "m",
      "n", "o", "p", "q", "r", "s", "t", "u", "v", "w", "x", "y", "z">>

Lower(ch) ==
    IF \E i \in 1..Len(UpperCase) : UpperCase[i] = ch
    THEN LowerCase[CHOOSE i \in 1..Len(UpperCase) : UpperCase[i] = ch]
    ELSE ch

LowerSeq(s) == [i \in 1..Len(s) |-> Lower(s[i])]

Digits == {"0", "1", "2", "3", "4", "5", "6", "7", "8", "9"}

Whitespace == {" ", "\t", "\n", "\r"}

LineTerminators == {"\n", "\r"}

\* An atom of a pattern: between min and max characters (max < 0: no upper
\* limit) that are in set (neg = FALSE) or not in set (neg = TRUE), as many
\* as possible first.
Lit(ch) == [neg |-> FALSE, set |-> {ch}, min |-> 1, max |-> 1]

Lits(cs) == [i \in 1..Len(cs) |-> Lit(cs[i])]

\* \s*
WsStar == [neg |-> FALSE, set |-> Whitespace, min |-> 0, max |-> -1]

\* \d
Digit1 == [neg |-> FALSE, set |-> Digits, min |-> 1, max |-> 1]

\* \d{1,3}
Digit13 == [neg |-> FALSE, set |-> Digits, min |-> 1, max |-> 3]

\* .*
AnyStar == [neg |-> TRUE, set |-> LineTerminators, min |-> 0, max |-> -1]

InClass(a, ch) == (ch \in a.set) # a.neg

\* The number of characters of s from position p on that are in the class of
\* atom a, counted up to cap.
RunLen(a, s, p, cap) ==
    CHOOSE n \in 0..cap :
       /\ \A i \in 0..(n - 1) : p + i <= Len(s) /\ InClass(a, s[p + i])
       /\ n = cap \/ p + n > Len(s) \/ ~InClass(a, s[p + n])

\* The most repetitions atom a may take in s.
Cap(a, s) == IF a.max < 0 THEN Len(s) ELSE a.max

\* The positions at which a match of atoms[k..] that starts at p can end, in
\* the order a backtracking matcher finds them (longest repetition first).
RECURSIVE MatchEnds(_, _, _, _), TryCounts(_, _, _, _, _, _)
MatchEnds(atoms, k, s, p) ==
    IF k > Len(atoms) THEN <<p>>
    ELSE TryCounts(atoms, k, s, p, atoms[k].min,
                   RunLen(atoms[k], s, p, Cap(atoms[k], s)))

\* The repetition counts from hi down to lo: the ends after the upper half
\* of the counts, then those after the lower half.
TryCounts(atoms, k, s, p, lo, hi) ==
    IF lo > hi THEN <<>>
    ELSE IF lo = hi THEN MatchEnds(atoms, k + 1, s, p + lo)
    ELSE TryCounts(atoms, k, s, p, (lo + hi) \div 2 + 1, hi)
         \o TryCounts(atoms, k, s, p, lo, (lo + hi) \div 2)

\* The text a pattern is matched against: lower-cased under the i flag (the
\* patterns are written in lower case).
Subject(re, m) == IF re.icase THEN LowerSeq(m) ELSE m

\* The end of the match of re that starts at p, 0 if there is none: the
\* first alternative that matches, at its first end.
MatchAt(re, s, p) ==
    LET hits == {i \in 1..Len(re.alts) : MatchEnds(re.alts[i], 1, s, p) # <<>>}
    IN IF hits = {} THEN 0
       ELSE LET i == CHOOSE h \in hits : \A g \in hits : h <= g
            IN Head(MatchEnds(re.alts[i], 1, s, p))

\* re.test(m)
Test(re, m) ==
    LET s == Subject(re, m)
    IN \E p \in 1..(Len(s) + 1) : MatchAt(re, s, p) # 0

NoMatch == [found |-> FALSE, text |-> <<>>]

\* m.match(re) for a pattern without the g flag: the leftmost match.
Match(re, m) ==
    LET s == Subject(re, m)
        starts == {p \in 1..(Len(s) + 1) : MatchAt(re, s, p) # 0}
    IN IF starts = {} THEN NoMatch
       ELSE LET p == CHOOSE q \in starts : \A r \in starts : q <= r
            IN [found |-> TRUE, text |-> SubSeq(m, p, MatchAt(re, s, p) - 1)]

(* The rule tables *)

\* /failed password|authentication failure|bad credentials/i
ReBruteForce ==
    [icase |-> TRUE,
     alts |-> <<
        Lits(<<"f", "a", "i", "l", "e", "d", " ", "p", "a", "s", "s", "w",
            "o", "r", "d">>),
        Lits(<<"a", "u", "t", "h", "e", "n", "t", "i", "c", "a", "t", "i",
            "o", "n", " ", "f", "a", "i", "l", "u", "r", "e">>),
        Lits(<<"b", "a", "d", " ", "c", "r", "e", "d", "e", "n", "t", "i",
            "a", "l", "s">>)>>]

\* /code\s*404|status\s*404/i
ReMit404 ==
    [icase |-> TRUE,
     alts |-> <<
        Lits(<<"c", "o", "d", "e">>) \o <<WsStar>> \o Lits(<<"4", "0", "4">>),
        Lits(<<"s", "t", "a", "t", "u", "s">>) \o <<WsStar>> \o Lits(<<"4",
            "0", "4">>)>>]

\* /user add|group add/i
ReAccountChange ==
    [icase |-> TRUE,
     alts |-> <<
        Lits(<<"u", "s", "e", "r", " ", "a", "d", "d">>),
        Lits(<<"g", "r", "o", "u", "p", " ", "a", "d", "d">>)>>]

\* /sudo|admin/i
ReSudoAdmin ==
    [icase |-> TRUE,
     alts |-> <<
        Lits(<<"s", "u", "d", "o">>),
        Lits(<<"a", "d", "m", "i", "n">>)>>]

\* /sql injection|union select|script>/i
ReInjection ==
    [icase |-> TRUE,
     alts |-> <<
        Lits(<<"s", "q", "l", " ", "i", "n", "j", "e", "c", "t", "i", "o",
            "n">>),
        Lits(<<"u", "n", "i", "o", "n", " ", "s", "e", "l", "e", "c", "t">>),
        Lits(<<"s", "c", "r", "i", "p", "t", ">">>)>>]

\* /code\s*404|status\s*404|http\/1\.\d"\s*404/i
ReExp404 ==
    [icase |-> TRUE,
     alts |-> <<
        Lits(<<"c", "o", "d", "e">>) \o <<WsStar>> \o Lits(<<"4", "0", "4">>),
        Lits(<<"s", "t", "a", "t", "u", "s">>) \o <<WsStar>> \o Lits(<<"4",
            "0", "4">>),
        Lits(<<"h", "t", "t", "p", "/", "1",
            ".">>) \o <<Digit1>> \o Lits(<<"\"">>) \o <<WsStar>> \o Lits(<<"4",
            "0", "4">>)>>]

\* /code\s*500|status\s*500/i
ReExp500 ==
    [icase |-> TRUE,
     alts |-> <<
        Lits(<<"c", "o", "d", "e">>) \o <<WsStar>> \o Lits(<<"5", "0", "0">>),
        Lits(<<"s", "t", "a", "t", "u", "s">>) \o <<WsStar>> \o Lits(<<"5",
            "0", "0">>)>>]

\* /segmentation fault|segfault/i
ReSegfault ==
    [icase |-> TRUE,
     alts |-> <<
        Lits(<<"s", "e", "g", "m", "e", "n", "t", "a", "t", "i", "o", "n",
            " ", "f", "a", "u", "l", "t">>),
        Lits(<<"s", "e", "g", "f", "a", "u", "l", "t">>)>>]

\* /connection refused|connection timed out/i
ReNetwork ==
    [icase |-> TRUE,
     alts |-> <<
        Lits(<<"c", "o", "n", "n", "e", "c", "t", "i", "o", "n", " ", "r",
            "e", "f", "u", "s", "e", "d">>),
        Lits(<<"c", "o", "n", "n", "e", "c", "t", "i", "o", "n", " ", "t",
            "i", "m", "e", "d", " ", "o", "u", "t">>)>>]

\* /usb.*scan/i
ReUsbScan ==
    [icase |-> TRUE,
     alts |-> <<
        Lits(<<"u", "s", "b">>) \o <<AnyStar>> \o Lits(<<"s", "c", "a", "n">>)>>]

\* /sudo/i
ReSudo ==
    [icase |-> TRUE,
     alts |-> <<
        Lits(<<"s", "u", "d", "o">>)>>]

\* /\d{1,3}(\.\d{1,3}){3}/
ReIpAnywhere ==
    [icase |-> FALSE,
     alts |-> <<
        <<Digit13, Lit("."), Digit13, Lit("."), Digit13, Lit("."), Digit13>>>>]

MITIGATION_MATRIC ==
    <<[regex |-> ReBruteForce, action |-> "Block IP",
       command |-> "netsh advfirewall firewall add rule name=\"Block IP\" dir=in action=block remoteip="],
      [regex |-> ReMit404, action |-> "Block Scanning IP",
       command |-> "netsh advfirewall firewall add rule name=\"Block Scanner\" dir=in action=block remoteip="],
      [regex |-> ReAccountChange, action |-> "Review Privileges",
       command |-> "netplwiz"],
      [regex |-> ReSudoAdmin, action |-> "Audit Session",
       command |-> "query user"],
      [regex |-> ReInjection, action |-> "Block Web Attack",
       command |-> "netsh advfirewall firewall add rule name=\"Block SQLi\" dir=in action=block remoteip="]>>

\* The texts are shortened to their first words.
EXPLANATIONS ==
    <<[regex |-> ReExp404, text |-> "Web Scanning"],
      [regex |-> ReExp500, text |-> "Internal Server Error"],
      [regex |-> ReBruteForce, text |-> "Possible Brute Force Attempt"],
      [regex |-> ReSegfault, text |-> "Critical Error"],
      [regex |-> ReNetwork, text |-> "Network Error"],
      [regex |-> ReUsbScan, text |-> "Hardware Event"],
      [regex |-> ReAccountChange, text |-> "Account Change"],
      [regex |-> ReSudo, text |-> "Admin Action"]>>

----------------------------------------------------------------------------
(* The log card *)

\* s.includes(sub)
Includes(s, sub) ==
    \E p \in 1..(Len(s) - Len(sub) + 1) : SubSeq(s, p, p + Len(sub) - 1) = sub

\* s.startsWith(pre)
StartsWith(s, pre) == Len(pre) <= Len(s) /\ SubSeq(s, 1, Len(pre)) = pre

\* s.split(sep) for a separator of one character.
RECURSIVE Split(_, _)
Split(s, sep) ==
    LET cuts == {i \in 1..Len(s) : s[i] = sep}
    IN IF cuts = {} THEN <<s>>
       ELSE LET c == CHOOSE i \in cuts : \A j \in cuts : i <= j
            IN <<SubSeq(s, 1, c - 1)>> \o Split(SubSeq(s, c + 1, Len(s)), sep)

\* s.trim()
RECURSIVE Trim(_)
Trim(s) ==
    IF s = <<>> THEN s
    ELSE IF Head(s) \in Whitespace THEN Trim(Tail(s))
    ELSE IF s[Len(s)] \in Whitespace THEN Trim(SubSeq(s, 1, Len(s) - 1))
    ELSE s

\* pat is found in s at position p.
FoundAt(s, pat, p) ==
    /\ p >= 1
    /\ p + Len(pat) - 1 <= Len(s)
    /\ SubSeq(s, p, p + Len(pat) - 1) = pat

\* What the positions lo..hi of s become when every pat is replaced by rep:
\* rep where a pat starts, nothing for the rest of that pat, the character
\* itself elsewhere.
RECURSIVE Replaced(_, _, _, _, _)
Replaced(s, pat, rep, lo, hi) ==
    IF lo > hi THEN <<>>
    ELSE IF lo = hi
    THEN IF FoundAt(s, pat, lo) THEN rep
         ELSE IF \E k \in 1..(Len(pat) - 1) : FoundAt(s, pat, lo - k) THEN <<>>
         ELSE <<s[lo]>>
    ELSE Replaced(s, pat, rep, lo, (lo + hi) \div 2)
         \o Replaced(s, pat, rep, (lo + hi) \div 2 + 1, hi)

\* s.replace(/pat/g, rep) for a pattern of literal characters that cannot
\* overlap itself.
ReplaceAll(s, pat, rep) == Replaced(s, pat, rep, 1, Len(s))

\* parts.find(p => ...): the first part that passes, NoMatch for undefined;
\* ok[i] tells whether parts[i] passes.
Find(parts, ok) ==
    LET hits == {i \in 1..Len(parts) : ok[i]}
    IN IF hits = {} THEN NoMatch
       ELSE [found |-> TRUE,
             text |-> parts[CHOOSE i \in hits : \A j \in hits : i <= j]]

\* re.test(s) for a pattern written between ^ and $.
TestWhole(re, s) ==
    LET t == Subject(re, s)
    IN \E i \in 1..Len(re.alts) :
          \E k \in 1..Len(MatchEnds(re.alts[i], 1, t, 1)) :
             MatchEnds(re.alts[i], 1, t, 1)[k] = Len(t) + 1

\* The ways atoms[k..] match from p on, in the order a backtracking matcher
\* finds them: each is the positions at which its atoms start, then its end.
RECURSIVE MatchPaths(_, _, _, _), TryPaths(_, _, _, _, _, _)
MatchPaths(atoms, k, s, p) ==
    IF k > Len(atoms) THEN <<<<p>>>>
    ELSE TryPaths(atoms, k, s, p, atoms[k].min,
                  RunLen(atoms[k], s, p, Cap(atoms[k], s)))

\* The paths of the rest of the pattern, each behind the start p of atom k.
From(p, paths) == [i \in 1..Len(paths) |-> <<p>> \o paths[i]]

\* The repetition counts from hi down to lo, as in TryCounts.
TryPaths(atoms, k, s, p, lo, hi) ==
    IF lo > hi THEN <<>>
    ELSE IF lo = hi THEN From(p, MatchPaths(atoms, k + 1, s, p + lo))
    ELSE TryPaths(atoms, k, s, p, (lo + hi) \div 2 + 1, hi)
         \o TryPaths(atoms, k, s, p, lo, (lo + hi) \div 2)

\* m.match(re)[1] for a pattern of one alternative whose group is the atom
\* re.group: the text of the group in the leftmost match.
Capture(re, m) ==
    LET starts == {p \in 1..(Len(m) + 1) : MatchPaths(re.atoms, 1, m, p) # <<>>}
    IN IF starts = {} THEN NoMatch
       ELSE LET p == CHOOSE q \in starts : \A r \in starts : q <= r
                path == Head(MatchPaths(re.atoms, 1, m, p))
            IN [found |-> TRUE,
                text |-> SubSeq(m, path[re.group], path[re.group + 1] - 1)]

\* \d+
DigitPlus == [neg |-> FALSE, set |-> Digits, min |-> 1, max |-> -1]

\* [^']*
NotQuoteStar == [neg |-> TRUE, set |-> {"'"}, min |-> 0, max |-> -1]

\* /^\d{1,3}(\.\d{1,3}){3}$/
ReIpToken == ReIpAnywhere

\* /^(GET|POST|PUT|DELETE|HEAD)$/i
ReMethod ==
    [icase |-> TRUE,
     alts |-> <<Lits(<<"g", "e", "t">>), Lits(<<"p", "o", "s", "t">>),
                Lits(<<"p", "u", "t">>),
                Lits(<<"d", "e", "l", "e", "t", "e">>),
                Lits(<<"h", "e", "a", "d">>)>>]

\* /^[1-5]\d{2}$/
ReStatus ==
    [icase |-> FALSE,
     alts |-> <<
        <<[neg |-> FALSE, set |-> {"1", "2", "3", "4", "5"},
           min |-> 1, max |-> 1],
          Digit1, Digit1>>>>]

\* /^[A-Z][a-z]+$/
ReCountry ==
    [icase |-> FALSE,
     alts |-> <<
        <<[neg |-> FALSE, set |-> {UpperCase[i] : i \in 1..Len(UpperCase)},
           min |-> 1, max |-> 1],
          [neg |-> FALSE, set |-> {LowerCase[i] : i \in 1..Len(LowerCase)},
           min |-> 1, max |-> -1]>>>>]

\* The pattern 'key':\s*'(group)' for a key and the atom of its group.
KeyPattern(key, inner) ==
    [atoms |-> Lits(<<"'">> \o key \o <<"'", ":">>) \o <<WsStar>>
               \o <<Lit("'"), inner, Lit("'")>>,
     group |-> Len(key) + 6]

\* /'Event ID':\s*'(\d+)'/
ReEventId == KeyPattern(<<"E", "v", "e", "n", "t", " ", "I", "D">>, DigitPlus)

\* /'Source':\s*'(\d+)'/
ReSourceId == KeyPattern(<<"S", "o", "u", "r", "c", "e">>, DigitPlus)

\* /'Message':\s*'([^']*)'/
ReMessage == KeyPattern(<<"M", "e", "s", "s", "a", "g", "e">>, NotQuoteStar)

\* /'Task Category':\s*'([^']*)'/
ReTaskCategory ==
    KeyPattern(<<"T", "a", "s", "k", " ", "C", "a", "t", "e", "g", "o", "r",
                   "y">>,
               NotQuoteStar)

\* A description is kept as one piece of text.
WIN_EVENT_DESCRIPTIONS ==
    <<
      [id |-> <<"4", "6", "2", "4">>,
       text |-> "Successful Logon"],
      [id |-> <<"4", "6", "2", "5">>,
       text |-> "Failed Logon (Invalid Credentials)"],
      [id |-> <<"4", "6", "3", "4">>,
       text |-> "Account Logged Off"],
      [id |-> <<"4", "6", "4", "8">>,
       text |-> "Logon using explicit credentials"],
      [id |-> <<"4", "6", "7", "2">>,
       text |-> "Special Privileges Assigned (Admin Login)"],
      [id |-> <<"4", "7", "2", "0">>,
       text |-> "New User Account Created"],
      [id |-> <<"4", "7", "2", "2">>,
       text |-> "User Account Enabled"],
      [id |-> <<"4", "7", "2", "3">>,
       text |-> "User Account Password Change Attempt"],
      [id |-> <<"4", "7", "2", "4">>,
       text |-> "User Account Password Reset Attempt"],
      [id |-> <<"4", "7", "2", "5">>,
       text |-> "User Account Disabled"],
      [id |-> <<"4", "7", "2", "6">>,
       text |-> "User Account Deleted"],
      [id |-> <<"4", "7", "2", "8">>,
       text |-> "User added to Security-enabled Global Group"],
      [id |-> <<"4", "7", "3", "2">>,
       text |-> "User added to Security-enabled Local Group"]>>

\* WIN_EVENT_DESCRIPTIONS[eventId] || ''
DescriptionOf(eventId) ==
    LET hits == {i \in 1..Len(WIN_EVENT_DESCRIPTIONS) :
                   WIN_EVENT_DESCRIPTIONS[i].id = eventId}
    IN IF hits = {} THEN <<>>
       ELSE <<WIN_EVENT_DESCRIPTIONS[CHOOSE i \in hits : TRUE].text>>

CountryMin == 3
SummaryMax == 80
SummaryMin == 5

\* renderLogCard: the test of the country token.
IsCountry(p) ==
    /\ TestWhole(ReCountry, Trim(p))
    /\ Len(p) > CountryMin
    /\ ~Includes(p, <<"C", "h", "r", "o", "m", "e">>)
    /\ ~Includes(p, <<"S", "a", "f", "a", "r", "i">>)

\* The web test passing on a country as well.
IsWebAccessWithCountry(ip, method, status, country) ==
    ip.found \/ method.found \/ status.found \/ country.found

\* renderLogCard: if (ip || method || status)
IsWebAccess(ip, method, status, country) ==
    ip.found \/ method.found \/ status.found

\* renderLogCard: the colour of the status badge.
StatusColor(status) ==
    IF ~status.found THEN "secondary"
    ELSE IF StartsWith(status.text, <<"5">>) THEN "danger"
    ELSE IF StartsWith(status.text, <<"4">>) THEN "warning"
    ELSE IF StartsWith(status.text, <<"2">>) THEN "success"
    ELSE "secondary"

\* renderLogCard: the second test, of a Windows event.
IsWindowsEvent(message) ==
    /\ StartsWith(Trim(message), <<"{", "'">>)
    /\ \/ Includes(message, <<"E", "v", "e", "n", "t", " ", "I", "D">>)
       \/ Includes(message, <<"'", "S", "o", "u", "r", "c", "e", "'", ":">>)

\* The event id with the Source key read first.
EventIdOfSourceFirst(message) ==
    LET m1 == Capture(ReSourceId, message)
        m2 == IF m1.found THEN m1 ELSE Capture(ReEventId, message)
    IN IF m2.found THEN m2.text
       ELSE <<"U", "n", "k", "n", "o", "w", "n">>

\* renderLogCard: eventId.
EventIdOf(message) ==
    LET m1 == Capture(ReEventId, message)
        m2 == IF m1.found THEN m1 ELSE Capture(ReSourceId, message)
    IN IF m2.found THEN m2.text
       ELSE <<"U", "n", "k", "n", "o", "w", "n">>

\* renderLogCard: realText.
RealTextOf(message) ==
    LET m1 == Capture(ReMessage, message)
        m2 == IF m1.found THEN m1 ELSE Capture(ReTaskCategory, message)
        taskRaw == IF m2.found THEN m2.text ELSE <<>>
    IN ReplaceAll(
          ReplaceAll(
             ReplaceAll(taskRaw, <<"\\", "r", "\\", "n">>, <<"\n">>),
             <<"\\", "t">>, <<" ", " ", " ", " ">>),
          <<"\\", "'">>, <<"'">>)

\* realText.split('\n')[0]
FirstLine(text) == Head(Split(text, "\n"))

\* s.substring(0, n)
Substring0(s, n) == SubSeq(s, 1, IF Len(s) < n THEN Len(s) ELSE n)

\* renderLogCard: summary.
SummaryOf(eventId, realText) ==
    LET cut == Substring0(FirstLine(realText), SummaryMax)
                  \o (IF Len(realText) > SummaryMax THEN <<".", ".", ".">>
                      ELSE <<>>)
    IN IF DescriptionOf(eventId) # <<>> THEN DescriptionOf(eventId)
       ELSE IF cut = <<>> \/ Len(Trim(cut)) < SummaryMin
       THEN <<"W", "i", "n", "d", "o", "w", "s", " ", "E", "v", "e", "n",
                "t", " ">>
            \o eventId
       ELSE cut

\* renderLogCard(message): the card of a web access, of a Windows event, or
\* the plain card.
RenderLogCard(message) ==
    LET parts == Split(message, ",")
        ip == Find(parts, [i \in DOMAIN parts |->
                              TestWhole(ReIpToken, Trim(parts[i]))])
        method == Find(parts, [i \in DOMAIN parts |->
                                  TestWhole(ReMethod, Trim(parts[i]))])
        status == Find(parts, [i \in DOMAIN parts |->
                                  TestWhole(ReStatus, Trim(parts[i]))])
        country == Find(parts, [i \in DOMAIN parts |-> IsCountry(parts[i])])
    IN IF Includes(message, <<",">>) /\ IsWebAccess(ip, method, status, country)
       THEN [view |-> "WebAccess", ip |-> ip, method |-> method,
             status |-> status, country |-> country,
             statusColor |-> StatusColor(status), message |-> message]
       ELSE IF IsWindowsEvent(message)
       THEN [view |-> "WindowsEvent", eventId |-> EventIdOf(message),
             summary |-> SummaryOf(EventIdOf(message), RealTextOf(message)),
             realText |-> RealTextOf(message), message |-> message]
       ELSE [view |-> "Generic", message |-> message]

----------------------------------------------------------------------------
(* Messages the log store may hold *)

\* Failed password for root from 10.0.0.1 port 22
MsgSshFail ==
    <<"F", "a", "i", "l", "e", "d", " ", "p", "a", "s", "s",
    "w", "o", "r", "d", " ", "f", "o", "r", " ", "r", "o", "o", "t", " ",
    "f", "r", "o", "m", " ", "1", "0", ".", "0", ".", "0", ".", "1", " ",
    "p", "o", "r", "t", " ", "2", "2">>

\* sudo: authentication failure user=admin
MsgSudoAuth ==
    <<"s", "u", "d", "o", ":", " ", "a", "u", "t", "h", "e",
    "n", "t", "i", "c", "a", "t", "i", "o", "n", " ", "f", "a", "i", "l",
    "u", "r", "e", " ", "u", "s", "e", "r", "=", "a", "d", "m", "i", "n">>

\* GET /admin status 404 from 192.168.1.20
MsgScan404 ==
    <<"G", "E", "T", " ", "/", "a", "d", "m", "i", "n", " ",
    "s", "t", "a", "t", "u", "s", " ", "4", "0", "4", " ", "f", "r", "o",
    "m", " ", "1", "9", "2", ".", "1", "6", "8", ".", "1", ".", "2", "0">>

\* code404
MsgCode404 ==
    <<"c", "o", "d", "e", "4", "0", "4">>

\* HTTP/1.1" 404 10.0.0.1 192.168.1.20
MsgHttp404 ==
    <<"H", "T", "T", "P", "/", "1", ".", "1", "\"", " ", "4",
    "0", "4", " ", "1", "0", ".", "0", ".", "0", ".", "1", " ", "1", "9",
    "2", ".", "1", "6", "8", ".", "1", ".", "2", "0">>

\* bad credentials 10.0.0.1 via 192.168.1.20
MsgTwoIps ==
    <<"b", "a", "d", " ", "c", "r", "e", "d", "e", "n", "t",
    "i", "a", "l", "s", " ", "1", "0", ".", "0", ".", "0", ".", "1", " ",
    "v", "i", "a", " ", "1", "9", "2", ".", "1", "6", "8", ".", "1", ".",
    "2", "0">>

\* user add bob by admin
MsgUserAdd ==
    <<"u", "s", "e", "r", " ", "a", "d", "d", " ", "b", "o",
    "b", " ", "b", "y", " ", "a", "d", "m", "i", "n">>

\* sudo su on 10.0.0.1
MsgSudoIp ==
    <<"s", "u", "d", "o", " ", "s", "u", " ", "o", "n", " ",
    "1", "0", ".", "0", ".", "0", ".", "1">>

\* Admin login
MsgAdmin ==
    <<"A", "d", "m", "i", "n", " ", "l", "o", "g", "i", "n">>

\* union select 1.2.3.4.5
MsgUnion ==
    <<"u", "n", "i", "o", "n", " ", "s", "e", "l", "e", "c", "t",
    " ", "1", ".", "2", ".", "3", ".", "4", ".", "5">>

\* Status\t500 segfault
MsgStatus500 ==
    <<"S", "t", "a", "t", "u", "s", "\t", "5", "0", "0", " ",
    "s", "e", "g", "f", "a", "u", "l", "t">>

\* segmentation fault
MsgSegv ==
    <<"s", "e", "g", "m", "e", "n", "t", "a", "t", "i", "o", "n",
    " ", "f", "a", "u", "l", "t">>

\* connection timed out
MsgTimeout ==
    <<"c", "o", "n", "n", "e", "c", "t", "i", "o", "n", " ",
    "t", "i", "m", "e", "d", " ", "o", "u", "t">>

\* usb device scan
MsgUsb ==
    <<"u", "s", "b", " ", "d", "e", "v", "i", "c", "e", " ", "s",
    "c", "a", "n">>

\* scan usb
MsgScanUsb ==
    <<"s", "c", "a", "n", " ", "u", "s", "b">>

\* all good
MsgQuiet ==
    <<"a", "l", "l", " ", "g", "o", "o", "d">>

\* failed password 1234.5.6.7890
MsgLongQuad ==
    <<"f", "a", "i", "l", "e", "d", " ", "p", "a", "s", "s",
    "w", "o", "r", "d", " ", "1", "2", "3", "4", ".", "5", ".", "6", ".",
    "7", "8", "9", "0">>

\* group add; code 500; sudo
MsgGroupAdd ==
    <<"g", "r", "o", "u", "p", " ", "a", "d", "d", ";", " ",
    "c", "o", "d", "e", " ", "5", "0", "0", ";", " ", "s", "u", "d", "o">>

\* failed  password 10.0.0
MsgTwoSpaces ==
    <<"f", "a", "i", "l", "e", "d", " ", " ", "p", "a", "s",
    "s", "w", "o", "r", "d", " ", "1", "0", ".", "0", ".", "0">>

\* <script>x 10.0.0.1
MsgScript ==
    <<"<", "s", "c", "r", "i", "p", "t", ">", "x", " ", "1",
    "0", ".", "0", ".", "0", ".", "1">>

\* 10.0.0.1,GET,404,USA
MsgCsv ==
    <<"1", "0", ".", "0", ".", "0", ".", "1", ",", "G", "E", "T",
    ",", "4", "0", "4", ",", "U", "S", "A">>

\* Messages for the log card: token lists, Windows events and mixtures of
\* the two.
CardSamples ==
    [
     csvWeb |-> <<"1", "0", ".", "0", ".", "0", ".", "1", ",", "G", "E", "T",
         ",", "4", "0", "4", ",", "U", "S", "A">>,
     csvNone |-> <<"a", "l", "p", "h", "a", ",", "b", "e", "t", "a", ",",
         "g", "a", "m", "m", "a">>,
     csvCountryOnly |-> <<"a", "l", "p", "h", "a", ",", "E", "g", "y", "p",
         "t">>,
     csvStatusOnly |-> <<"x", ",", " ", "4", "0", "4", " ", ",", "y">>,
     winFailed |-> <<"{", "'", "E", "v", "e", "n", "t", " ", "I", "D", "'",
         ":", " ", "'", "4", "6", "2", "5", "'", ",", " ", "'", "M", "e",
         "s", "s", "a", "g", "e", "'", ":", " ", "'", "b", "a", "d", " ",
         "l", "o", "g", "i", "n", "'", "}">>,
     winSource |-> <<"{", "'", "S", "o", "u", "r", "c", "e", "'", ":", " ",
         "'", "4", "6", "7", "2", "'", ",", " ", "'", "M", "e", "s", "s",
         "a", "g", "e", "'", ":", " ", "'", "x", "'", "}">>,
     winBoth |-> <<"{", "'", "S", "o", "u", "r", "c", "e", "'", ":", " ",
         "'", "4", "6", "2", "4", "'", ",", " ", "'", "E", "v", "e", "n",
         "t", " ", "I", "D", "'", ":", " ", "'", "4", "7", "2", "0", "'",
         "}">>,
     winNoDigits |-> <<"{", "'", "E", "v", "e", "n", "t", " ", "I", "D", "'",
         ":", " ", "'", "a", "b", "c", "'", ",", " ", "'", "M", "e", "s",
         "s", "a", "g", "e", "'", ":", " ", "'", "s", "e", "r", "v", "i",
         "c", "e", " ", "s", "t", "a", "r", "t", "e", "d", " ", "o", "k",
         "'", "}">>,
     winBare |-> <<"{", "'", "E", "v", "e", "n", "t", " ", "I", "D", "'",
         ":", " ", "'", "1", "1", "0", "2", "'", "}">>,
     winShort |-> <<"{", "'", "E", "v", "e", "n", "t", " ", "I", "D", "'",
         ":", " ", "'", "1", "1", "0", "2", "'", ",", " ", "'", "M", "e",
         "s", "s", "a", "g", "e", "'", ":", " ", "'", "a", "b", "'", "}">>,
     winPadded |-> <<"{", "'", "E", "v", "e", "n", "t", " ", "I", "D", "'",
         ":", " ", "'", "1", "1", "0", "2", "'", ",", " ", "'", "M", "e",
         "s", "s", "a", "g", "e", "'", ":", " ", "'", " ", " ", " ", "a",
         "b", "c", "d", " ", " ", " ", "'", "}">>,
     winLong |-> <<"{", "'", "E", "v", "e", "n", "t", " ", "I", "D", "'",
         ":", " ", "'", "1", "1", "0", "2", "'", ",", " ", "'", "M", "e",
         "s", "s", "a", "g", "e", "'", ":", " ", "'", "x", "x", "x", "x",
         "x", "x", "x", "x", "x", "x", "x", "x", "x", "x", "x", "x", "x",
         "x", "x", "x", "x", "x", "x", "x", "x", "x", "x", "x", "x", "x",
         "x", "x", "x", "x", "x", "x", "x", "x", "x", "x", "x", "x", "x",
         "x", "x", "x", "x", "x", "x", "x", "x", "x", "x", "x", "x", "x",
         "x", "x", "x", "x", "x", "x", "x", "x", "x", "x", "x", "x", "x",
         "x", "x", "x", "x", "x", "x", "x", "x", "x", "x", "x", "x", "x",
         "x", "x", "x", "'", "}">>,
     winEighty |-> <<"{", "'", "E", "v", "e", "n", "t", " ", "I", "D", "'",
         ":", " ", "'", "1", "1", "0", "2", "'", ",", " ", "'", "M", "e",
         "s", "s", "a", "g", "e", "'", ":", " ", "'", "z", "z", "z", "z",
         "z", "z", "z", "z", "z", "z", "z", "z", "z", "z", "z", "z", "z",
         "z", "z", "z", "z", "z", "z", "z", "z", "z", "z", "z", "z", "z",
         "z", "z", "z", "z", "z", "z", "z", "z", "z", "z", "z", "z", "z",
         "z", "z", "z", "z", "z", "z", "z", "z", "z", "z", "z", "z", "z",
         "z", "z", "z", "z", "z", "z", "z", "z", "z", "z", "z", "z", "z",
         "z", "z", "z", "z", "z", "z", "z", "z", "z", "z", "z", "'", "}">>,
     winLines |-> <<"{", "'", "E", "v", "e", "n", "t", " ", "I", "D", "'",
         ":", " ", "'", "1", "1", "0", "2", "'", ",", " ", "'", "M", "e",
         "s", "s", "a", "g", "e", "'", ":", " ", "'", "f", "i", "r", "s",
         "t", " ", "l", "i", "n", "e", "\\", "r", "\\", "n", "y", "y", "y",
         "y", "y", "y", "y", "y", "y", "y", "y", "y", "y", "y", "y", "y",
         "y", "y", "y", "y", "y", "y", "y", "y", "y", "y", "y", "y", "y",
         "y", "y", "y", "y", "y", "y", "y", "y", "y", "y", "y", "y", "y",
         "y", "y", "y", "y", "y", "y", "y", "y", "y", "y", "y", "y", "y",
         "y", "y", "y", "y", "y", "y", "y", "y", "y", "y", "y", "y", "y",
         "y", "y", "y", "y", "y", "y", "y", "y", "y", "y", "y", "y", "y",
         "y", "y", "y", "y", "y", "y", "y", "y", "y", "'", "}">>,
     winTask |-> <<"{", "'", "E", "v", "e", "n", "t", " ", "I", "D", "'",
         ":", " ", "'", "7", "'", ",", " ", "'", "T", "a", "s", "k", " ",
         "C", "a", "t", "e", "g", "o", "r", "y", "'", ":", " ", "'", "a",
         "\\", "t", "b", "'", "}">>,
     winWeb |-> <<"{", "'", "E", "v", "e", "n", "t", " ", "I", "D", "'", ":",
         " ", "'", "4", "6", "2", "5", "'", "}", ",", " ", "G", "E", "T">>,
     winIndented |-> <<" ", " ", "{", "'", "E", "v", "e", "n", "t", " ", "I",
         "D", "'", ":", "'", "4", "6", "3", "4", "'", "}">>,
     winNoKey |-> <<"{", "'", "x", "'", ":", " ", "'", "E", "v", "e", "n",
         "t", " ", "I", "D", " ", "1", "2", "'", "}">>,
     notDict |-> <<"E", "v", "e", "n", "t", " ", "I", "D", ":", " ", "'",
         "4", "6", "2", "5", "'", ",", " ", "'", "S", "o", "u", "r", "c",
         "e", "'", ":", " ", "'", "1", "'">>,
     ctryEgypt |-> <<"1", "0", ".", "0", ".", "0", ".", "1", ",", "E", "g",
         "y", "p", "t", ",", "G", "E", "T">>,
     ctryPadded |-> <<"1", "0", ".", "0", ".", "0", ".", "1", ",", " ", " ",
         "U", "k", ",", "G", "E", "T">>,
     ctryShort |-> <<"1", "0", ".", "0", ".", "0", ".", "1", ",", "U", "k",
         ",", "O", "m", "a", "n", ",", "G", "E", "T">>,
     ctryChrom |-> <<"1", "0", ".", "0", ".", "0", ".", "1", ",", "C", "h",
         "r", "o", "m", ",", "G", "E", "T">>,
     ctryBrowsers |-> <<"1", "0", ".", "0", ".", "0", ".", "1", ",", "C",
         "h", "r", "o", "m", "e", ",", "S", "a", "f", "a", "r", "i", ",",
         "S", "p", "a", "i", "n">>,
     ctryBook |-> <<"1", "0", ".", "0", ".", "0", ".", "1", ",", "C", "h",
         "r", "o", "m", "e", "b", "o", "o", "k", ",", "P", "e", "r", "u">>]

CardMessages == {CardSamples[k] : k \in DOMAIN CardSamples}

SampleMessages ==
    {MsgSshFail, MsgSudoAuth, MsgScan404, MsgCode404,
     MsgHttp404, MsgTwoIps, MsgUserAdd, MsgSudoIp,
     MsgAdmin, MsgUnion, MsgStatus500, MsgSegv,
     MsgTimeout, MsgUsb, MsgScanUsb, MsgQuiet,
     MsgLongQuad, MsgGroupAdd, MsgTwoSpaces, MsgScript,
     MsgCsv} \cup CardMessages

----------------------------------------------------------------------------
(* Alerts *)

\* A sendAlert that creates its Notification whatever alertsEnabled holds.
SendAlertAlways(on, seen, title) == seen \cup {title}

\* sendAlert(title, message): a Notification is created when alerts are on.
SendAlert(on, seen, title) == IF on THEN seen \cup {title} ELSE seen

\* What lastRun records: the handler and the titles it passed to sendAlert.
Ran(handler, alerts) == [handler |-> handler, alerts |-> alerts]

\* A click on #enableAlertsBtn: asks for permission when alerts are off,
\* turns them off when they are on.
EnableAlertsClick ==
    /\ IF ~alertsEnabled
       THEN /\ permissionAsks < MaxAsks
            /\ permissionAsks' = permissionAsks + 1
            /\ UNCHANGED <<alertsEnabled, grantedSinceOff>>
       ELSE /\ alertsEnabled' = FALSE
            /\ grantedSinceOff' = FALSE
            /\ UNCHANGED permissionAsks
    /\ lastRun' = Ran("enableAlertsClick", <<>>)
    /\ UNCHANGED notified

\* The promise of Notification.requestPermission() settles.
PermissionAnswered(permission) ==
    /\ permissionAsks > 0
    /\ permissionAsks' = permissionAsks - 1
    /\ IF permission = "granted"
       THEN /\ alertsEnabled' = TRUE
            /\ grantedSinceOff' = TRUE
            /\ notified' = SendAlert(TRUE, notified, "Alerts Active")
            /\ lastRun' = Ran("permissionAnswered", <<"Alerts Active">>)
       ELSE /\ lastRun' = Ran("permissionAnswered", <<>>)
            /\ UNCHANGED <<alertsEnabled, grantedSinceOff, notified>>

----------------------------------------------------------------------------
(* Severity *)

Null == [kind |-> "null"]

Undefined == [kind |-> "undefined"]

\* The scores 0.5, 0.6, 0.8 and 0.9, and the two absent values.
ScoreValues == {Num(0, 5), Num(0, 6), Num(0, 8), Num(0, 9), Null, Undefined}

HighAbove == Num(0, 8)

MediumAbove == Num(0, 5)

\* x > t for a number t: null counts as 0, undefined as NaN.
JsGreater(x, t) ==
    CASE x.kind = "num"  -> NumLess(t, x)
      [] x.kind = "null" -> NumLess(t, Num(0, 0))
      [] OTHER           -> FALSE

Bands == <<"High", "Medium", "Low", "Pending">>

BandSet == {Bands[i] : i \in 1..Len(Bands)}

\* updateLevelChart: the score of a log record.
RecordScore(l) ==
    IF l.anomaly_score # Undefined THEN l.anomaly_score ELSE l.score

\* updateLevelChart: the counter a log record adds to.
LevelOf(l) ==
    LET score == RecordScore(l)
    IN IF score # Null /\ score # Undefined
       THEN IF JsGreater(score, HighAbove) THEN "High"
            ELSE IF JsGreater(score, MediumAbove) THEN "Medium"
            ELSE "Low"
       ELSE "Pending"

\* updateLevelChart: the forEach over an array of log records.
RECURSIVE CountLevels(_, _, _)
CountLevels(logs, i, counts) ==
    IF i > Len(logs) THEN counts
    ELSE CountLevels(logs, i + 1,
                     [counts EXCEPT ![LevelOf(logs[i])] = @ + 1])

\* Object.keys(counts).filter(k => counts[k] > 0 || k !== 'Pending')
ChartLabels(counts) ==
    SelectSeq(Bands, LAMBDA k : counts[k] > 0 \/ k # "Pending")

\* updateLevelChart(statsOrLogs): counts from an array of records, or the
\* pre-computed counts object itself; with a total of 0 the chart container
\* is hidden and the chart left as it is, otherwise the chart is rebuilt.
UpdateLevelChart(statsOrLogs) ==
    LET counts == IF statsOrLogs.kind = "array"
                  THEN CountLevels(statsOrLogs.items, 1,
                                   [b \in BandSet |-> 0])
                  ELSE statsOrLogs.counts
        total == counts["High"] + counts["Medium"] + counts["Low"]
                 + counts["Pending"]
        labels == ChartLabels(counts)
    IN /\ chartInput' = statsOrLogs
       /\ levelCounts' = counts
       /\ levelChart' =
             IF total = 0 THEN [levelChart EXCEPT !.shown = FALSE]
             ELSE [shown |-> TRUE, labels |-> labels,
                   data |-> [i \in 1..Len(labels) |-> counts[labels[i]]]]

----------------------------------------------------------------------------
(* The anomaly list *)

MaxShown == 50

\* updateAnomalyList: sevLabel of an anomaly.
SevLabel(a) ==
    IF JsGreater(a.score, HighAbove) THEN "HIGH"
    ELSE IF JsGreater(a.score, MediumAbove) THEN "MEDIUM"
    ELSE "Low"

\* A rule loop without its break: the last matching rule wins.
RECURSIVE LastMatching(_, _, _)
LastMatching(rules, m, i) ==
    IF i > Len(rules) THEN 0
    ELSE LET later == LastMatching(rules, m, i + 1)
         IN IF later # 0 THEN later
            ELSE IF Test(rules[i].regex, m) THEN i ELSE 0

\* for (const r of rules) { if (r.regex.test(m)) { ...; break; } }: the index
\* of the rule the loop stops at, 0 when it runs to the end.
RECURSIVE FirstMatching(_, _, _)
FirstMatching(rules, m, i) ==
    IF i > Len(rules) THEN 0
    ELSE IF Test(rules[i].regex, m) THEN i
    ELSE FirstMatching(rules, m, i + 1)

\* The command with the address appended only for the firewall rules.
MitigationCommandFirewallOnly(mit, m) ==
    LET ipMatch == Match(ReIpAnywhere, m)
    IN IF ipMatch.found /\ mit.command \notin {"netplwiz", "query user"}
       THEN <<mit.command>> \o ipMatch.text
       ELSE <<mit.command>>

\* let cmd = mit.command; if (ipMatch) cmd += ipMatch[0]. The command is
\* kept as the template followed by the characters appended to it.
MitigationCommand(mit, m) ==
    LET ipMatch == Match(ReIpAnywhere, m)
    IN IF ipMatch.found THEN <<mit.command>> \o ipMatch.text
       ELSE <<mit.command>>

NoMitigation == [action |-> "", command |-> <<>>]

\* updateAnomalyList: the explanation block of an anomaly ("" for none).
ExplanationOf(m) ==
    LET i == FirstMatching(EXPLANATIONS, m, 1)
    IN IF i = 0 THEN "" ELSE EXPLANATIONS[i].text

\* updateAnomalyList: the mitigation block of an anomaly.
MitigationOf(m) ==
    LET i == FirstMatching(MITIGATION_MATRIC, m, 1)
    IN IF i = 0 THEN NoMitigation
       ELSE [action |-> MITIGATION_MATRIC[i].action,
             command |-> MitigationCommand(MITIGATION_MATRIC[i], m)]

\* The answers of the two engines for the messages of the log store.
ExplanationTable == [m \in SampleMessages |-> ExplanationOf(m)]

MitigationTable == [m \in SampleMessages |-> MitigationOf(m)]

\* The cards of the messages of the log store.
CardTable == [m \in SampleMessages |-> RenderLogCard(m)]

\* a.score.toFixed(2) throws a TypeError when the score is null or undefined.
ToFixedThrows(a) == a.score.kind # "num"

\* updateAnomalyList: the list item built for an anomaly.
ListItem(a) ==
    [id |-> a.id, message |-> a.message, score |-> a.score,
     sevLabel |-> SevLabel(a),
     card |-> CardTable[a.message],
     explanation |-> ExplanationTable[a.message],
     mitigation |-> MitigationTable[a.message]]

\* The Execute button of a mitigation block as updateAnomalyList writes it.
NewButton == [text |-> "Execute", className |-> "btn-danger", disabled |-> FALSE]

\* The simulations whose button has left the document with the old list:
\* they run on, on a button nobody sees (btn 0).
Detached(sims) ==
    LET gone == {[s EXCEPT !.btn = 0] : s \in DOMAIN sims}
        Copies(d) == BagSize([s \in {t \in DOMAIN sims : [t EXCEPT !.btn = 0] = d}
                                 |-> sims[s]])
    IN [d \in gone |-> Copies(d)]

\* updateAnomalyList(anoms): clears the list, raises the high-severity alert,
\* and appends an item for each of the first 50 anomalies; a TypeError from
\* toFixed ends the loop and leaves the function.
UpdateAnomalyList(anoms) ==
    LET shown == SubSeq(anoms, 1, IF Len(anoms) < MaxShown THEN Len(anoms)
                                  ELSE MaxShown)
        bad == {i \in 1..Len(shown) : ToFixedThrows(shown[i])}
        stop == IF bad = {} THEN Len(shown) + 1
                ELSE CHOOSE i \in bad : \A j \in bad : i <= j
        criticals == SelectSeq(anoms, LAMBDA a : JsGreater(a.score, HighAbove))
    IN /\ listCalled' = TRUE
       /\ notified' = IF Len(criticals) > 0
                      THEN SendAlert(alertsEnabled, notified,
                                     "High Severity Detected")
                      ELSE notified
       /\ anomalyLabels' = [i \in 1..(IF bad = {} THEN Len(shown) ELSE stop)
                               |-> SevLabel(shown[i])]
       /\ anomalyList' = [i \in 1..(stop - 1) |-> ListItem(shown[i])]
       /\ listThrew' = (bad # {})
       /\ buttons' = [i \in {j \in DOMAIN anomalyList' :
                                 anomalyList'[j].mitigation # NoMitigation}
                         |-> NewButton]
       /\ simulations' = Detached(simulations)
       /\ lastRun' = Ran("updateAnomalyList",
                         IF Len(criticals) > 0
                         THEN <<"High Severity Detected">> ELSE <<>>)
       /\ UNCHANGED <<alertsEnabled, permissionAsks, grantedSinceOff>>

\* A click on an Execute button: window.simulateContainment(action, btn) up
\* to its await; a disabled button takes no click.
SimulateContainmentClick(i) ==
    /\ i \in DOMAIN buttons
    /\ ~buttons[i].disabled
    /\ BagSize(simulations) < MaxSims
    /\ buttons' = [buttons EXCEPT ![i] = [text |-> "Executing...",
                                          className |-> "btn-warning",
                                          disabled |-> TRUE]]
    /\ simulations' = BagAdd(simulations,
                             [btn |-> i, phase |-> "executing",
                              action |-> anomalyList[i].mitigation.action])
    /\ lastRun' = Ran("simulateContainment", <<>>)
    /\ UNCHANGED <<alertsEnabled, permissionAsks, notified, grantedSinceOff>>
    /\ UNCHANGED <<replyVars, listVars, chartVars, wfVars, schedVars>>

\* A simulateContainment that, after its 1200 ms, also posts a stop request
\* to the scheduler.
SimulateContainmentExecutes(sim) ==
    /\ sim.phase = "executing"
    /\ buttons' = IF sim.btn = 0 THEN buttons
                  ELSE [buttons EXCEPT ![sim.btn].text = "Applied",
                                       ![sim.btn].className = "btn-success"]
    /\ notified' = SendAlert(alertsEnabled, notified,
                             "Containment Action Success")
    /\ simulations' = BagAdd(BagRemove(simulations, sim),
                             [sim EXCEPT !.phase = "applied"])
    /\ lastRun' = Ran("simulateContainment", <<"Containment Action Success">>)
    /\ stopCalls' = BagAdd(stopCalls, [phase |-> "sent"])
    /\ UNCHANGED <<alertsEnabled, permissionAsks, grantedSinceOff>>
    /\ UNCHANGED <<schedInterval, schedMaxItems, schedStatus, schedulePoller,
                   timers, startCalls, statusCalls, schedClicks,
                   stopProcessed, srvSchedVars>>
    /\ UNCHANGED <<replyVars, listVars, chartVars, wfVars>>

\* simulateContainment after its 1200 ms: the button reads Applied, the
\* success alert is sent and the 500 ms timer is set.
SimulateContainmentApplied(sim) ==
    /\ sim.phase = "executing"
    /\ buttons' = IF sim.btn = 0 THEN buttons
                  ELSE [buttons EXCEPT ![sim.btn].text = "Applied",
                                       ![sim.btn].className = "btn-success"]
    /\ notified' = SendAlert(alertsEnabled, notified,
                             "Containment Action Success")
    /\ simulations' = BagAdd(BagRemove(simulations, sim),
                             [sim EXCEPT !.phase = "applied"])
    /\ lastRun' = Ran("simulateContainment", <<"Containment Action Success">>)
    /\ UNCHANGED <<alertsEnabled, permissionAsks, grantedSinceOff>>
    /\ UNCHANGED <<replyVars, listVars, chartVars, wfVars, schedVars>>

\* The 500 ms timer of simulateContainment fires: the button is disabled
\* once more.
SimulateContainmentTimeout(sim) ==
    /\ sim.phase = "applied"
    /\ buttons' = IF sim.btn = 0 THEN buttons
                  ELSE [buttons EXCEPT ![sim.btn].disabled = TRUE]
    /\ simulations' = BagRemove(simulations, sim)
    /\ lastRun' = Ran("simulateContainment", <<>>)
    /\ UNCHANGED <<alertsEnabled, permissionAsks, notified, grantedSinceOff>>
    /\ UNCHANGED <<replyVars, listVars, chartVars, wfVars, schedVars>>

----------------------------------------------------------------------------
(* What the server answers *)

SeqsUpTo(S, n) == UNION {[1..k -> S] : k \in 0..n}

\* Log records as /api/logs returns them: anomaly_score may be missing.
LogRecords ==
    [anomaly_score : {Undefined, Null, Num(0, 9)}, score : ScoreValues]

ArrayOf(items) == [kind |-> "array", items |-> items]

ObjectOf(counts) == [kind |-> "object", counts |-> counts]

ZeroCounts == [b \in BandSet |-> 0]

\* /api/stats/severity: counts worked out by the server.
StatsReplies ==
    {ZeroCounts,
     [ZeroCounts EXCEPT !["Pending"] = 2],
     [ZeroCounts EXCEPT !["High"] = 1, !["Low"] = 2]}

\* Anomalies that differ in their score only.
ScoredAnomalies == [id : {7}, message : {MsgQuiet}, score : ScoreValues]

\* Anomalies that differ in their message only.
MessageAnomalies == [id : {7}, message : SampleMessages, score : {Num(0, 9)}]

\* The page after loading, before any answer has been handled.
InitPage ==
    /\ alertsEnabled = FALSE
    /\ permissionAsks = 0
    /\ notified = {}
    /\ grantedSinceOff = FALSE
    /\ lastRun = Ran("none", <<>>)
    /\ buttons = <<>>
    /\ simulations = EmptyBag
    /\ listCalled = FALSE
    /\ anomalyLabels = <<>>
    /\ anomalyList = <<>>
    /\ listThrew = FALSE
    /\ chartInput = [kind |-> "none"]
    /\ levelCounts = ZeroCounts
    /\ levelChart = [shown |-> FALSE, labels |-> <<>>, data |-> <<>>]

\* An empty log store.
InitAnalysisIdle ==
    /\ InitPage
    /\ analyzeReply = <<>>
    /\ logsReply = <<>>
    /\ statsReply = ZeroCounts

----------------------------------------------------------------------------
(* Specifications *)

InitSpecWorkflow == InitWorkflow /\ InitScheduleIdle /\ InitAnalysisIdle

SpecWorkflow == InitSpecWorkflow /\ [][NextWorkflow]_vars

InitSpecSchedule == InitSchedule /\ InitWorkflowIdle /\ InitAnalysisIdle

SpecSchedule == InitSpecSchedule /\ [][NextSchedule]_vars

\* The severity of scores: a log store with records and anomalies of every
\* score.
InitSpecSeverity ==
    /\ InitPage
    /\ analyzeReply \in SeqsUpTo(ScoredAnomalies, MaxAnoms)
    /\ logsReply \in SeqsUpTo(LogRecords, MaxLogs)
    /\ statsReply \in StatsReplies
    /\ InitWorkflowIdle
    /\ InitScheduleIdle

\* #levelFilter changes and /api/logs answers; loadLogs gets the answer of
\* /api/stats/severity; /api/analyze answers.
NextSeverity ==
    \/ /\ UpdateLevelChart(ArrayOf(logsReply))
       /\ UNCHANGED <<replyVars, alertVars, listVars, simVars, wfVars, schedVars>>
    \/ /\ UpdateLevelChart(ObjectOf(statsReply))
       /\ UNCHANGED <<replyVars, alertVars, listVars, simVars, wfVars, schedVars>>
    \/ /\ UpdateAnomalyList(analyzeReply)
       /\ UNCHANGED <<replyVars, chartVars, wfVars, schedVars>>

SpecSeverity == InitSpecSeverity /\ [][NextSeverity]_vars

\* The rule engines: a log store with anomalies of every message, and the
\* alerts switched on and off.
InitSpecEngines ==
    /\ InitPage
    /\ analyzeReply \in SeqsUpTo(MessageAnomalies, MaxAnoms)
    /\ logsReply = <<>>
    /\ statsReply = ZeroCounts
    /\ InitWorkflowIdle
    /\ InitScheduleIdle

NextEngines ==
    \/ /\ UpdateAnomalyList(analyzeReply)
       /\ UNCHANGED <<replyVars, chartVars, wfVars, schedVars>>
    \/ /\ EnableAlertsClick
       /\ UNCHANGED <<replyVars, listVars, simVars, chartVars, wfVars,
                     schedVars>>
    \/ \E p \in {"granted", "denied"} :
          /\ PermissionAnswered(p)
          /\ UNCHANGED <<replyVars, listVars, simVars, chartVars, wfVars,
                         schedVars>>

SpecEngines == InitSpecEngines /\ [][NextEngines]_vars

\* Containment: a log store whose anomalies have a mitigation or none and are
\* of high or medium severity; the list is rendered, Execute buttons are
\* clicked and the alerts are switched on and off.
ContainmentAnomalies ==
    [id : {7}, message : {MsgSshFail, MsgQuiet}, score : {Num(0, 6), Num(0, 9)}]

InitSpecContainment ==
    /\ InitPage
    /\ analyzeReply \in SeqsUpTo(ContainmentAnomalies, MaxListed)
    /\ logsReply = <<>>
    /\ statsReply = ZeroCounts
    /\ InitWorkflowIdle
    /\ InitScheduleIdle

NextContainment ==
    \/ /\ UpdateAnomalyList(analyzeReply)
       /\ UNCHANGED <<replyVars, chartVars, wfVars, schedVars>>
    \/ \E i \in DOMAIN buttons : SimulateContainmentClick(i)
    \/ \E sim \in DOMAIN simulations : SimulateContainmentApplied(sim)
    \/ \E sim \in DOMAIN simulations : SimulateContainmentTimeout(sim)
    \/ /\ EnableAlertsClick
       /\ UNCHANGED <<replyVars, listVars, simVars, chartVars, wfVars,
                      schedVars>>
    \/ \E p \in {"granted", "denied"} :
          /\ PermissionAnswered(p)
          /\ UNCHANGED <<replyVars, listVars, simVars, chartVars, wfVars,
                         schedVars>>

SpecContainment == InitSpecContainment /\ [][NextContainment]_vars

----------------------------------------------------------------------------
(* Claims about the incident workflow, checked under SpecWorkflow *)

\* The step hands call c to the server and the server answers resp.
Handled(c, resp) ==
    /\ c \in DOMAIN calls
    /\ c.phase = "sent"
    /\ resp \in {"json_advanced", "json_error", "http_error"}
    /\ calls' = BagAdd(BagRemove(calls, c),
                        [c EXCEPT !.phase = "answered", !.resp = resp])

ErrorResponses == {"json_error", "http_error"}

ErrorOutcomes == {"alert_wait", "alert_failed"}

\* C1: currentStage of an incident changes only in a step that serves an
\* advance request for that incident whose target is the immediate successor
\* of the current stage, and the new stage is that target: no stage is
\* skipped, none is revisited, and Recovery (which has no successor) never
\* changes.
C1_OnlySuccessorAdvances ==
    [][\A i \in IncidentIds :
          stage'[i] # stage[i] =>
             /\ stage[i] # "Recovery"
             /\ StageIdx(stage'[i]) = StageIdx(stage[i]) + 1
             /\ \E c \in DOMAIN calls :
                   /\ c.id = i
                   /\ c.target = stage'[i]
                   /\ Handled(c, "json_advanced")]_vars

\* An incident has reached Recovery through an accepted request and a later
\* request on it has been turned down.
C1_Witness ==
    \E c1, c2 \in DOMAIN calls :
        /\ c1.id = c2.id
        /\ c1.phase = "done" /\ c1.outcome = "reloaded"
        /\ c1.target = "Recovery"
        /\ c2.phase = "done" /\ c2.outcome \in ErrorOutcomes
        /\ c2.issuedAt = "Recovery"
        /\ stage[c1.id] = "Recovery"

\* The number of calls made for incident id with target t.
CallsFor(id, t) ==
    BagSize([c \in {x \in DOMAIN calls : x.id = id /\ x.target = t}
                 |-> calls[c]])

\* c1 and c2 are the two requests of the claim: two calls for the same
\* incident and target, issued at the same stage, whose target was the next
\* stage when they were issued, and no third request for that target.
TwinRequests(c1, c2) ==
    /\ c1 \in DOMAIN calls /\ c2 \in DOMAIN calls
    /\ c1 # c2 \/ calls[c1] >= 2
    /\ c1.id = c2.id /\ c1.target = c2.target
    /\ c1.issuedAt = c2.issuedAt
    /\ IsSuccessor(c1.issuedAt, c1.target)
    /\ CallsFor(c1.id, c1.target) = 2

\* C2: of two advance requests for the same incident and target that were
\* issued at the same stage and are both served, exactly one is answered
\* "advanced" (the caller reloads the table) and the other ends in an error
\* shown to the caller; the incident is then at the target, one stage
\* further, unless a request for a later stage has moved it on.
C2_ExactlyOneOfTwoAdvances ==
    \A c1, c2 \in DOMAIN calls :
        (/\ TwinRequests(c1, c2)
         /\ c1.phase = "done" /\ c2.phase = "done")
        => /\ c1 # c2
           /\ (c1.outcome = "reloaded") # (c2.outcome = "reloaded")
           /\ {c1.outcome, c2.outcome} \subseteq {"reloaded"} \cup ErrorOutcomes
           /\ StageIdx(stage[c1.id]) >= StageIdx(c1.target)
           /\ (\A c \in DOMAIN calls : c.id = c1.id => c.target = c1.target)
                 => stage[c1.id] = c1.target

\* Two such requests were both in flight, and both have been served and
\* worked off by the client.
C2_Witness ==
    \E c1, c2 \in DOMAIN calls :
        /\ TwinRequests(c1, c2)
        /\ c1.phase = "done" /\ c2.phase = "done"
        /\ c1.outcome = "reloaded"
        /\ c2.outcome \in ErrorOutcomes

\* C3: a request whose target is not the immediate successor of the stage the
\* server finds is answered with an error and changes no incident's stage,
\* and every request answered with an error ends in an alert shown by
\* window.advanceIncident, never in an exception leaving it.
C3_RejectionIsExplicit ==
    /\ [][\A c \in DOMAIN calls : \A resp \in {"json_advanced"} \cup ErrorResponses :
             (Handled(c, resp) /\ ~IsSuccessor(stage[c.id], c.target))
                => (resp \in ErrorResponses /\ stage' = stage)]_vars
    /\ [](\A c \in DOMAIN calls :
             (c.phase = "done" /\ c.resp \in ErrorResponses)
                => c.outcome \in ErrorOutcomes)

\* A request for a stage that is not the successor has been refused by the
\* server and has ended in the alert of the catch block, the stage unchanged.
C3_Witness ==
    \E c \in DOMAIN calls :
        /\ c.phase = "done"
        /\ c.resp = "http_error"
        /\ c.outcome = "alert_failed"
        /\ ~IsSuccessor(stage[c.id], c.target)
        /\ stage[c.id] = c.issuedAt

----------------------------------------------------------------------------
(* Claims about the scheduler, checked under SpecSchedule *)

Minimum == Num(MinInterval, 0)

\* C5: every start request made while the interval input held a number below
\* 30 (zero and negative numbers included) carries interval_sec = 30.
C5_BelowMinimumBecomesThirty ==
    \A c \in DOMAIN startCalls :
        (c.typed.kind = "num" /\ NumLess(c.typed, Minimum))
            => c.interval_sec = Minimum

\* C6: no start request carries an interval_sec below 30, and while the
\* schedule is running its intervalSec is at least 30.
C6_ActiveIntervalAtLeastMinimum ==
    /\ \A c \in DOMAIN startCalls : ~NumLess(c.interval_sec, Minimum)
    /\ srvRunning => ~NumLess(srvInterval, Minimum)

\* The schedule runs on a start request that was made with 29.5 typed into
\* the input and that carried 30.
C6_Witness ==
    \E c \in DOMAIN startCalls :
        /\ c.phase = "answered"
        /\ c.typed = Num(29, 5)
        /\ c.interval_sec = Minimum
        /\ srvRunning
        /\ srvInterval = Minimum

\* C7: at most one schedule cycle is in flight.
C7_AtMostOneCycle == srvCycles <= 1

\* A tick has fired while a cycle was in flight, and that cycle is still the
\* only one.
C7_Witness == srvSkipped /\ srvCycles = 1

\* The step is the server serving a stop call.
StopServed ==
    \E c \in DOMAIN stopCalls' :
        /\ c.phase = "answered"
        /\ c \notin DOMAIN stopCalls \/ stopCalls'[c] > stopCalls[c]

\* C8: running is true exactly when the last call served was start; a
\* running schedule has exactly one repeating trigger and a stopped one has
\* none; every start is answered running=true and every stop stopped=true;
\* and a stop served while not running changes nothing of the ScheduleState.
C8_RunningIffLastCallStart ==
    /\ [](/\ srvRunning <=> srvLastCall = "start"
          /\ srvTriggers = IF srvRunning THEN 1 ELSE 0
          /\ \A c \in DOMAIN startCalls : c.phase = "answered" => c.running
          /\ \A c \in DOMAIN stopCalls : c.phase = "answered" => c.stopped)
    /\ [][(StopServed /\ ~srvRunning)
             => <<srvRunning, srvInterval, srvMaxItems, srvLastResult,
                  srvTriggers, srvCycles>>' =
                <<srvRunning, srvInterval, srvMaxItems, srvLastResult,
                  srvTriggers, srvCycles>>]_vars

\* A stop was served before any start, and a start was served while the
\* schedule was already running.
C8_Witness ==
    /\ \E c \in DOMAIN stopCalls :
          c.phase = "answered" /\ ~c.wasRunning /\ c.stopped
    /\ \E c \in DOMAIN startCalls :
          c.phase = "answered" /\ c.wasRunning /\ c.running
    /\ srvTriggers = 1

----------------------------------------------------------------------------
(* Claims about severity, checked under SpecSeverity *)

Absent(s) == s = Null \/ s = Undefined

\* The band the thresholds give a score.
BandOfScore(s) ==
    IF Absent(s) THEN "Pending"
    ELSE IF NumLess(Num(0, 8), s) THEN "High"
    ELSE IF NumLess(Num(0, 5), s) THEN "Medium"
    ELSE "Low"

\* The band a label of the anomaly list names.
BandOfLabel(label) ==
    CASE label = "HIGH"   -> "High"
      [] label = "MEDIUM" -> "Medium"
      [] label = "Low"    -> "Low"
      [] OTHER            -> "Pending"

\* C4: every score is put in the band High iff s > 0.8, Medium iff
\* 0.5 < s <= 0.8, Low iff s <= 0.5 and Pending iff s is absent, by the
\* counting of updateLevelChart (each counter is the number of records whose
\* score is in its band) and by the label of updateAnomalyList (the label of
\* each anomaly names the band of its score).
C4_BandsEverywhere ==
    /\ chartInput.kind = "array" =>
          \A b \in BandSet :
             levelCounts[b] =
                Cardinality({i \in 1..Len(chartInput.items) :
                               BandOfScore(RecordScore(chartInput.items[i])) = b})
    /\ listCalled =>
          \A i \in 1..Len(anomalyLabels) :
             BandOfLabel(anomalyLabels[i]) = BandOfScore(analyzeReply[i].score)

----------------------------------------------------------------------------
(* Claims about the rule engines, checked under SpecEngines *)

Matching(rules, m) == {i \in 1..Len(rules) : Test(rules[i].regex, m)}

\* The lowest index of a rule that matches, 0 when none does.
LowestRule(rules, m) ==
    LET hits == Matching(rules, m)
    IN IF hits = {} THEN 0 ELSE CHOOSE i \in hits : \A j \in hits : i <= j

\* The rules that match each message of the log store.
MatchingExplanations == [m \in SampleMessages |-> Matching(EXPLANATIONS, m)]

MatchingMitigations ==
    [m \in SampleMessages |-> Matching(MITIGATION_MATRIC, m)]

LowestExplanation == [m \in SampleMessages |-> LowestRule(EXPLANATIONS, m)]

LowestMitigation ==
    [m \in SampleMessages |-> LowestRule(MITIGATION_MATRIC, m)]

\* C9: the explanation of every listed anomaly is the text of the
\* lowest-index rule of EXPLANATIONS whose pattern matches its message and
\* its mitigation has the action of the lowest-index rule of
\* MITIGATION_MATRIC whose pattern matches, later matching rules being
\* ignored; with no matching rule there is no explanation or no mitigation.
C9_LowestRuleWins ==
    \A i \in 1..Len(anomalyList) :
       LET item == anomalyList[i]
           e == LowestExplanation[item.message]
           k == LowestMitigation[item.message]
       IN /\ item.explanation = IF e = 0 THEN "" ELSE EXPLANATIONS[e].text
          /\ item.mitigation.action =
                IF k = 0 THEN "" ELSE MITIGATION_MATRIC[k].action
          /\ k = 0 => item.mitigation = NoMitigation

\* An anomaly that matches two rules or more of each list has been listed
\* with the first of them.
C9_Witness ==
    \E i \in 1..Len(anomalyList) :
       LET item == anomalyList[i]
       IN /\ Cardinality(MatchingExplanations[item.message]) >= 2
          /\ Cardinality(MatchingMitigations[item.message]) >= 2
          /\ item.explanation = EXPLANATIONS[2].text
          /\ item.mitigation.action = MITIGATION_MATRIC[3].action

\* m[a..b] is one to three digits.
IsGroup(m, a, b) ==
    /\ a <= b
    /\ b <= a + 2
    /\ b <= Len(m)
    /\ \A i \in a..b : m[i] \in Digits

IsDot(m, i) == i <= Len(m) /\ m[i] = "."

\* m[p..e] is four groups of one to three digits with dots between them.
IsDottedQuad(m, p, e) ==
    \E d1 \in (p + 1)..(p + 3) :
       \E d2 \in (d1 + 2)..(d1 + 4) :
          \E d3 \in (d2 + 2)..(d2 + 4) :
             /\ IsDot(m, d1) /\ IsDot(m, d2) /\ IsDot(m, d3)
             /\ IsGroup(m, p, d1 - 1)
             /\ IsGroup(m, d1 + 1, d2 - 1)
             /\ IsGroup(m, d2 + 1, d3 - 1)
             /\ IsGroup(m, d3 + 1, e)

QuadSpans(m) ==
    {sp \in (1..Len(m)) \X (1..Len(m)) : IsDottedQuad(m, sp[1], sp[2])}

\* The first dotted quad of a message, the leftmost and the longest of those
\* that start there; the empty text when the message has none.
FirstQuad(m) ==
    LET spans == QuadSpans(m)
    IN IF spans = {} THEN <<>>
       ELSE LET sp == CHOOSE x \in spans :
                         \A o \in spans :
                            x[1] < o[1] \/ (x[1] = o[1] /\ x[2] >= o[2])
            IN SubSeq(m, sp[1], sp[2])

\* The first dotted quad of each message of the log store.
FirstQuadOf == [m \in SampleMessages |-> FirstQuad(m)]

IpParameterized(rule) ==
    rule.command \notin {"netplwiz", "query user"}

\* C10: the command of every listed mitigation is the command template of
\* the rule that matched followed by the first dotted quad of the message
\* when the message has one, and the template alone when it has none,
\* whichever rule matched.
C10_CommandIsTemplatePlusFirstQuad ==
    \A i \in 1..Len(anomalyList) :
       LET item == anomalyList[i]
           k == LowestMitigation[item.message]
       IN k # 0 =>
             item.mitigation.command =
                <<MITIGATION_MATRIC[k].command>> \o FirstQuadOf[item.message]

\* A mitigation whose rule is not parameterized by an address has been
\* listed for a message with a dotted quad, the quad appended.
C10_Witness ==
    \E i \in 1..Len(anomalyList) :
       LET item == anomalyList[i]
           k == LowestMitigation[item.message]
       IN /\ k # 0
          /\ ~IpParameterized(MITIGATION_MATRIC[k])
          /\ FirstQuadOf[item.message] # <<>>
          /\ Len(item.mitigation.command) > 1

----------------------------------------------------------------------------
(* Claims about the log card, checked under SpecEngines *)

\* No token of the comma-separated list of m is an IPv4 address, an HTTP
\* method or a status code.
NoFieldToken(m) ==
    \A i \in 1..Len(Split(m, ",")) :
       LET t == Trim(Split(m, ",")[i])
       IN /\ ~TestWhole(ReIpToken, t)
          /\ ~TestWhole(ReMethod, t)
          /\ ~TestWhole(ReStatus, t)

\* The messages with a comma and without such a token.
PlainLists ==
    {m \in SampleMessages : Includes(m, <<",">>) /\ NoFieldToken(m)}

\* 'key': is in m.
HasKey(m, key) == Includes(m, <<"'">> \o key \o <<"'", ":">>)

\* The messages that start, trimmed, with the marker of a dictionary literal
\* and have an Event ID key or a Source key.
Dictionaries ==
    {m \in SampleMessages :
        /\ StartsWith(Trim(m), <<"{", "'">>)
        /\ HasKey(m, <<"E", "v", "e", "n", "t", " ", "I", "D">>) \/ HasKey(m, <<"S", "o", "u", "r", "c", "e">>)}

DigitsOfKey(m, key) ==
    LET mark == <<"'">> \o key \o <<"'", ":">>
        at == {p \in 1..Len(m) : FoundAt(m, mark, p)}
        spans == {x \in at \X (1..Len(m)) \X (1..Len(m)) :
                    /\ x[1] + Len(mark) < x[2]
                    /\ x[2] <= x[3]
                    /\ x[3] < Len(m)
                    /\ \A i \in (x[1] + Len(mark))..(x[2] - 2) :
                          m[i] \in Whitespace
                    /\ m[x[2] - 1] = "'"
                    /\ \A i \in x[2]..x[3] : m[i] \in Digits
                    /\ m[x[3] + 1] = "'"}
    IN IF spans = {} THEN <<>>
       ELSE LET x == CHOOSE y \in spans : \A z \in spans : y[1] <= z[1]
            IN SubSeq(m, x[2], x[3])

\* The event id each dictionary message is to be given.
ClaimedEventId ==
    [m \in Dictionaries |->
        IF DigitsOfKey(m, <<"E", "v", "e", "n", "t", " ", "I", "D">>) # <<>>
        THEN DigitsOfKey(m, <<"E", "v", "e", "n", "t", " ", "I", "D">>)
        ELSE IF DigitsOfKey(m, <<"S", "o", "u", "r", "c", "e">>) # <<>>
        THEN DigitsOfKey(m, <<"S", "o", "u", "r", "c", "e">>)
        ELSE <<"U", "n", "k", "n", "o", "w", "n">>]

WellKnown(eventId) ==
    {i \in 1..Len(WIN_EVENT_DESCRIPTIONS) :
        WIN_EVENT_DESCRIPTIONS[i].id = eventId}

\* C12: every message that is not given the WebAccess view, starts, trimmed,
\* with the marker of a dictionary literal and has an Event ID key or a
\* Source key is given the WindowsEvent view, its eventId being the digits
\* of 'Event ID' when that pattern matches, else the digits of 'Source' when
\* that pattern matches, else "Unknown"; and when the eventId is a key of
\* the table of well-known events the description is the entry of the
\* table, whatever the text of the message.
C12_EventIdAndKnownDescription ==
    \A i \in 1..Len(anomalyList) :
       LET m == anomalyList[i].message
           card == anomalyList[i].card
       IN (card.view # "WebAccess" /\ m \in Dictionaries) =>
             /\ card.view = "WindowsEvent"
             /\ card.eventId = ClaimedEventId[m]
             /\ \A k \in WellKnown(card.eventId) :
                   card.summary = <<WIN_EVENT_DESCRIPTIONS[k].text>>

\* A message with both keys, the Source key first, has been listed with the
\* digits of its Event ID and the description of the table.
C12_Witness ==
    \E i \in 1..Len(anomalyList) :
       LET m == anomalyList[i].message
           card == anomalyList[i].card
       IN /\ m \in Dictionaries
          /\ DigitsOfKey(m, <<"E", "v", "e", "n", "t", " ", "I", "D">>) # <<>>
          /\ DigitsOfKey(m, <<"S", "o", "u", "r", "c", "e">>) # <<>>
          /\ DigitsOfKey(m, <<"E", "v", "e", "n", "t", " ", "I", "D">>) # DigitsOfKey(m, <<"S", "o", "u", "r", "c", "e">>)
          /\ card.view = "WindowsEvent"
          /\ card.eventId = DigitsOfKey(m, <<"E", "v", "e", "n", "t", " ", "I", "D">>)
          /\ WellKnown(card.eventId) # {}

\* The description the claim gives an event that is not well known.
ClaimedSummary(eventId, rawText) ==
    LET breaks == {i \in 1..Len(rawText) : rawText[i] = "\n"}
        stop == IF breaks = {} THEN Len(rawText) + 1
                ELSE CHOOSE i \in breaks : \A j \in breaks : i <= j
        line == SubSeq(rawText, 1, stop - 1)
        cut == IF Len(line) > 80 THEN SubSeq(line, 1, 80) \o <<".", ".", ".">>
               ELSE line
    IN IF Len(cut) < 5
       THEN <<"W", "i", "n", "d", "o", "w", "s", " ", "E", "v", "e", "n",
                "t", " ">>
            \o eventId
       ELSE cut

\* C13: the description of a Windows event that is not in the table of
\* well-known events is the first line of its rawText cut to 80 characters,
\* with the ellipsis appended if and only if that line was longer than 80
\* characters, and "Windows Event {eventId}" in its place when it is empty
\* or shorter than 5 characters.
C13_DescriptionFromFirstLine ==
    \A i \in 1..Len(anomalyList) :
       LET card == anomalyList[i].card
       IN (card.view = "WindowsEvent" /\ WellKnown(card.eventId) = {}) =>
             card.summary = ClaimedSummary(card.eventId, card.realText)

\* s is a part of the text b.
PartOf(s, b) == Includes(b, s)

\* The country the claim gives a token list.
ClaimedCountry(m) ==
    LET parts == Split(m, ",")
        Proper(p) == /\ TestWhole(ReCountry, Trim(p))
                     /\ Len(p) > 3
                     /\ ~PartOf(p, <<"C", "h", "r", "o", "m", "e">>)
                     /\ ~PartOf(p, <<"S", "a", "f", "a", "r", "i">>)
    IN Find(parts, [i \in DOMAIN parts |-> Proper(parts[i])])

ClaimedCountryOf == [m \in SampleMessages |-> ClaimedCountry(m)]

\* C14: in a WebAccess view the country is the first comma-separated token
\* that matches [A-Z][a-z]+, is longer than 3 characters and is not a part
\* of "Chrome" or of "Safari"; there is none when no token is so.
C14_CountryIsFirstProperToken ==
    \A i \in 1..Len(anomalyList) :
       anomalyList[i].card.view = "WebAccess" =>
          anomalyList[i].card.country = ClaimedCountryOf[anomalyList[i].message]

----------------------------------------------------------------------------
(* Claims about the polling timer, checked under SpecSchedule *)

\* No status request is awaiting its answer or its handling.
StatusRequestsDone == statusCalls = EmptyBag

AtMostOneTimer == timers <= 1

\* C18: over any interleaving of startSchedule, stopSchedule,
\* getScheduleStatus responses and timer ticks at most one status-polling
\* timer exists, and once a stop response with stopped = true has been
\* handled and every status request in flight has completed, no
\* status-polling timer is left.
C18_OneTimerNoneAfterStop ==
    /\ AtMostOneTimer
    /\ (stopProcessed /\ StatusRequestsDone) => timers = 0

----------------------------------------------------------------------------
(* Claims about containment and alerts, checked under SpecContainment *)

\* The requests in flight and the state of the incidents, the log store and
\* the schedule.
ServerSide == <<wfVars, schedVars, replyVars>>

\* At most one button differs between the two states of the step.
OneButtonAtMost ==
    /\ DOMAIN buttons' = DOMAIN buttons
    /\ \E i \in DOMAIN buttons \cup {0} :
          \A j \in DOMAIN buttons \ {i} : buttons'[j] = buttons[j]

\* C15: proposing or triggering a mitigation never executes its command: a
\* step of updateAnomalyList writes the {action, command} descriptor of each
\* item and a step of simulateContainment changes one button at most and
\* creates one notification at most; neither sends a request or changes the
\* state of an incident, of the log store or of the schedule, and
\* simulateContainment leaves the list and the chart as they are.
C15_MitigationNeverExecuted ==
    [][/\ lastRun'.handler = "updateAnomalyList" =>
             /\ UNCHANGED ServerSide
             /\ \A i \in DOMAIN anomalyList' :
                   anomalyList'[i].mitigation
                       = MitigationTable[analyzeReply[i].message]
       /\ lastRun'.handler = "simulateContainment" =>
             /\ UNCHANGED ServerSide
             /\ UNCHANGED <<listVars, chartVars, alertsEnabled, permissionAsks>>
             /\ OneButtonAtMost
             /\ Cardinality(notified' \ notified) <= 1
             /\ Len(lastRun'.alerts) <= 1]_vars

\* Of two buttons one has been executed, with its notification, and the other
\* is as it was rendered.
C15_Witness ==
    /\ lastRun.handler = "simulateContainment"
    /\ "Containment Action Success" \in notified
    /\ \E i, j \in DOMAIN buttons :
          /\ buttons[i] = [text |-> "Applied", className |-> "btn-success",
                           disabled |-> TRUE]
          /\ buttons[j] = NewButton
          /\ anomalyList[i].mitigation.action = "Block IP"

\* The answer of /api/analyze has an anomaly of score > 0.8.
HasHighAnomaly ==
    \E i \in DOMAIN analyzeReply : JsGreater(analyzeReply[i].score, HighAbove)

\* The list shows a mitigation block.
MitigationProposed ==
    \E i \in DOMAIN anomalyList : anomalyList[i].mitigation # NoMitigation

\* updateAnomalyList has just run on an answer with a high anomaly and did
\* call sendAlert for it.
HighAlertSent ==
    (lastRun.handler = "updateAnomalyList" /\ HasHighAnomaly)
        => \E k \in DOMAIN lastRun.alerts :
              lastRun.alerts[k] = "High Severity Detected"

\* C16: sendAlert is called every time updateAnomalyList classifies an
\* answer with at least one anomaly of score > 0.8, and every time it
\* proposes a mitigation for an anomaly.
C16_AlertOnHighAndOnMitigation ==
    /\ HighAlertSent
    /\ (lastRun.handler = "updateAnomalyList" /\ MitigationProposed)
           => lastRun.alerts # <<>>

\* C17: over any interleaving of clicks on the alerts button, permission
\* answers and calls of sendAlert, a Notification is created only while
\* alertsEnabled is true, and alertsEnabled is true only if a permission
\* request answered "granted" has completed after the last click that turned
\* alerts off.
C17_NotificationsOnlyWhileEnabled ==
    /\ [](alertsEnabled => grantedSinceOff)
    /\ [][notified' # notified => alertsEnabled']_vars

\* Alerts are on with a second permission request still unanswered, and
\* sendAlert has created the Notification of a high anomaly.
C17_Witness ==
    /\ alertsEnabled
    /\ permissionAsks > 0
    /\ "High Severity Detected" \in notified
====
